---- MODULE Spec2Model ----
(***************************************************************************)
(* Blackjack table of src/app.py: Deck, Hand, the betting / playing /      *)
(* results phases of the Streamlit script and apply_payouts.  Every button *)
(* handler of the script is one action; st.session_state is the state.     *)
(***************************************************************************)
EXTENDS Integers, Sequences, FiniteSets, TLC

\* ---------------------------------------------------------------- constants

STARTING_CHIPS == 1000
MIN_BET == 50
NUM_DECKS == 6
RESHUFFLE_BELOW == 15
DEALER_STAND == 17
MAX_HANDS == 4

SUITS == {"S", "H", "D", "C"}
RANKS == {"A", "2", "3", "4", "5", "6", "7", "8", "9", "10", "J", "Q", "K"}

CARD_VALUES(rank) ==
  CASE rank = "A" -> 11
    [] rank = "2" -> 2
    [] rank = "3" -> 3
    [] rank = "4" -> 4
    [] rank = "5" -> 5
    [] rank = "6" -> 6
    [] rank = "7" -> 7
    [] rank = "8" -> 8
    [] rank = "9" -> 9
    [] rank = "10" -> 10
    [] rank = "J" -> 10
    [] rank = "Q" -> 10
    [] rank = "K" -> 10

\* ------------------------------------------------------------------- bounds

\* Cards the players draw in one round by hit, double and split together, in
\* the sessions explored as WideTable.
MaxDraws == 2
\* Rounds dealt in one table session, in the sessions explored as LongTable.
MaxRounds == 2
\* Cards of a hand in the stand-alone Hand specification.
MaxLen == 4
\* Cards the players draw in one round in the sessions explored as PairTable.
MaxPairDraws == 8
MaxShoeRounds == 76

\* Seats opened at the table (the slider offers 1..6).
SeatCounts == {1, 2}

\* The cards the shuffled shoe is explored to yield at the table
\* (random.shuffle makes every order possible; the shoe holds NUM_DECKS copies
\* of each card).
ShoeCards == {<<"A", "S">>, <<"5", "H">>, <<"K", "D">>, <<"Q", "C">>}
ShoeRanks == {c[1] : c \in ShoeCards}

\* st.session_state.supabase when init_supabase_client found no credentials
\* or no library, or failed to connect.
NoClient == "None"

\* The table sessions explored; the clients are the values of
\* init_supabase_client explored in them, and saves tells whether the session
\* explores the two buttons that save a round.
\* WideTable: one round whose shoe order brings
\* two ranks to the table (soft hands and naturals, busts and dealer draws,
\* equal values of different rank) and whose players draw MaxDraws cards.
\* LongTable: MaxRounds rounds, each with cards of one rank and one card drawn
\* by the players.
WideTable ==
  [groups |-> {{"A", "K"}, {"A", "5"}, {"5", "K"}, {"K", "Q"}},
   seats |-> SeatCounts, rounds |-> 1, draws |-> MaxDraws, order |-> <<>>,
   clients |-> {NoClient}, saves |-> FALSE]
LongTable ==
  [groups |-> {{r} : r \in ShoeRanks},
   seats |-> SeatCounts, rounds |-> MaxRounds, draws |-> 1, order |-> <<>>,
   clients |-> {NoClient, "client"}, saves |-> TRUE]
\* PairTable: one round of one player whose shoe yields Kings and Queens, so
\* that hands are pairs of either rank or of both, and who draws the
\* MaxPairDraws cards of four splits.
PairTable ==
  [groups |-> {{"K", "Q"}}, seats |-> {1}, rounds |-> 1, draws |-> MaxPairDraws,
   order |-> <<>>, clients |-> {NoClient}, saves |-> FALSE]

\* ShoeTable: MaxShoeRounds rounds of Kings in which no player draws (every
\* hand is 20 against the dealer's 20, a push), enough for the shoe to run down
\* to the rebuild.
ShoeTable ==
  [groups |-> {{"K"}}, seats |-> SeatCounts, rounds |-> MaxShoeRounds,
   draws |-> 0, order |-> <<>>, clients |-> {NoClient}, saves |-> FALSE]

\* CutTables: one round dealt from a shoe whose first cards are CutCards, cut
\* at any point and in either direction, with no card drawn by the players;
\* the cards differ, so that the hands show which card of the shoe went where.
CutCards ==
  <<<<"9", "S">>, <<"7", "H">>, <<"K", "D">>, <<"4", "C">>, <<"A", "H">>, <<"6", "S">>>>
Rotate(s, k) == [i \in 1..Len(s) |-> s[((i + k - 1) % Len(s)) + 1]]
Reverse(s) == [i \in 1..Len(s) |-> s[Len(s) + 1 - i]]
CutOrders ==
  {Rotate(CutCards, k) : k \in 0..(Len(CutCards) - 1)}
    \cup {Rotate(Reverse(CutCards), k) : k \in 0..(Len(CutCards) - 1)}
CutTables ==
  {[groups |-> {{o[i][1] : i \in DOMAIN o}}, seats |-> SeatCounts, rounds |-> 1,
    draws |-> 0, order |-> o, clients |-> {NoClient, "client"},
    saves |-> TRUE] : o \in CutOrders}

\* Decks of the stand-alone Deck specification (the table's Deck() has
\* NUM_DECKS), and the points at which its shuffles cut the list built.
DeckCounts == {1, NUM_DECKS}
ShuffleCuts == {1, 17}

\* Every card of a deck (suits play no part in a Hand), for the stand-alone
\* Hand specification.
AllCards == RANKS \X {"S"}

RanksOf(cards) == {cards[i][1] : i \in DOMAIN cards}

\* --------------------------------------------------------------------- Hand

NewHand ==
  [cards |-> <<>>, bet |-> 0, is_standing |-> FALSE, is_bust |-> FALSE,
   is_blackjack |-> FALSE, doubled |-> FALSE]

RECURSIVE SumValues(_)
SumValues(cards) ==
  IF cards = <<>> THEN 0
  ELSE CARD_VALUES(Head(cards)[1]) + SumValues(Tail(cards))

RECURSIVE CountAces(_)
CountAces(cards) ==
  IF cards = <<>> THEN 0
  ELSE (IF Head(cards)[1] = "A" THEN 1 ELSE 0) + CountAces(Tail(cards))

\* Mutant of Downgrade: at most one Ace is downgraded.
Downgrade_Once(value, aces) ==
  IF value > 21 /\ aces > 0 THEN value - 10 ELSE value

RECURSIVE Downgrade(_, _)
Downgrade(value, aces) ==
  IF value > 21 /\ aces > 0 THEN Downgrade(value - 10, aces - 1) ELSE value

get_value(cards) == Downgrade(SumValues(cards), CountAces(cards))

\* Mutant of update_states: a value of 21 already counts as bust.
update_states_BustAt21(h) ==
  [h EXCEPT !.is_bust = get_value(h.cards) >= 21,
            !.is_blackjack = (Len(h.cards) = 2 /\ get_value(h.cards) = 21)]

\* Mutant of update_states: blackjack is any 21, whatever the number of cards.
update_states_NoLength(h) ==
  [h EXCEPT !.is_bust = get_value(h.cards) > 21,
            !.is_blackjack = (get_value(h.cards) = 21)]

update_states(h) ==
  [h EXCEPT !.is_bust = get_value(h.cards) > 21,
            !.is_blackjack = (Len(h.cards) = 2 /\ get_value(h.cards) = 21)]

\* Mutant of add_card: no auto-stand on 21.
add_card_NoAutoStand(h, card) ==
  update_states([h EXCEPT !.cards = Append(h.cards, card)])

add_card(h, card) ==
  LET h1 == update_states([h EXCEPT !.cards = Append(h.cards, card)])
  IN  IF get_value(h1.cards) = 21 THEN [h1 EXCEPT !.is_standing = TRUE] ELSE h1

\* Mutant of can_split: equal values (K, Q) count as a pair.
can_split_ByValue(h) ==
  IF Len(h.cards) # 2 THEN FALSE
  ELSE CARD_VALUES(h.cards[1][1]) = CARD_VALUES(h.cards[2][1])

can_split(h) ==
  IF Len(h.cards) # 2 THEN FALSE ELSE h.cards[1][1] = h.cards[2][1]

\* Mutant of can_double: a hand of any length can be doubled.
can_double_AnyLength(h) == ~h.doubled

can_double(h) == Len(h.cards) = 2 /\ ~h.doubled

\* --------------------------------------------------------------------- Deck

FullShoe == NUM_DECKS * 52

\* Mutant of deal_len: the card is returned and left in the shoe.
deal_len_KeepsCard(n) == IF n = 0 \/ n < RESHUFFLE_BELOW THEN FullShoe ELSE n

\* Number of cards left in the shoe after one deal().
deal_len(n) == (IF n = 0 \/ n < RESHUFFLE_BELOW THEN FullShoe ELSE n) - 1

RECURSIVE deal_len_n(_, _)
deal_len_n(n, k) == IF k = 0 THEN n ELSE deal_len_n(deal_len(n), k - 1)

\* The lists SUITS and RANKS in the order of the source.
SuitSeq == <<"S", "H", "D", "C">>
RankSeq == <<"A", "2", "3", "4", "5", "6", "7", "8", "9", "10", "J", "Q", "K">>

\* The list Deck._build fills before shuffling it: num_decks times, for every
\* suit, every rank.
Built(num_decks) ==
  [i \in 1..(num_decks * Len(SuitSeq) * Len(RankSeq)) |->
     <<RankSeq[((i - 1) % Len(RankSeq)) + 1],
       SuitSeq[(((i - 1) \div Len(RankSeq)) % Len(SuitSeq)) + 1]>>]

\* The orders random.shuffle is explored to leave a list in: the list as
\* built, reversed, and cut at ShuffleCuts.
Shuffles(s) == {s, Reverse(s)} \cup {Rotate(s, k) : k \in ShuffleCuts}

\* A Deck object that was never built: no stand-alone Deck.
NoDeck == [num_decks |-> NUM_DECKS, cards |-> <<>>, dealt |-> <<>>]

\* Deck._build: the decks a rebuild of d may leave.
build(d) == {[d EXCEPT !.cards = p] : p \in Shuffles(Built(d.num_decks))}

\* Mutant of deal: the shoe is rebuilt only when it is empty.
deal_RebuildWhenEmpty(d) ==
  LET ds == IF Len(d.cards) = 0 THEN build(d) ELSE {d}
  IN  {[b EXCEPT !.cards = SubSeq(@, 1, Len(@) - 1),
                 !.dealt = <<b.cards[Len(b.cards)]>>] : b \in ds}

\* Deck.deal: the decks after one deal(), with the card returned in dealt.
deal(d) ==
  LET ds == IF Len(d.cards) = 0 \/ Len(d.cards) < RESHUFFLE_BELOW
            THEN build(d) ELSE {d}
  IN  {[b EXCEPT !.cards = SubSeq(@, 1, Len(@) - 1),
                 !.dealt = <<b.cards[Len(b.cards)]>>] : b \in ds}

\* -------------------------------------------------------------------- state

VARIABLES
  game_started,        \* st.session_state flags
  betting_phase,
  round_active,
  dealer_turn,
  round_over,
  payouts_applied,
  num_players,
  player_names,        \* sequence of names; player i is named i ("Player i")
  bankrolls,           \* name -> chips
  deck,                \* cards left in the shoe; 0 is None (no Deck built yet)
  dealer_hand,         \* <<>> is None, <<h>> is the dealer's Hand
  player_hands,        \* insertion-ordered dict: sequence of [name, hands]
  current_player_idx,  \* 0-based, into the keys of player_hands
  current_hand_idx,    \* 0-based, into the current player's hands
  rounds,              \* rounds dealt so far in this session (bookkeeping)
  lim,                 \* the table session explored: WideTable or LongTable
  hand,                \* a stand-alone Hand object (Hand specification)
  shoe,                \* a stand-alone Deck object (Deck specification), with
                       \* the value its last deal() returned
  supabase,            \* st.session_state.supabase: NoClient (None) or a client
  saved                \* what the last save_round_to_supabase call returned:
                       \* <<>> (no call yet) or <<ok, message>>

vars ==
  <<game_started, betting_phase, round_active, dealer_turn, round_over,
    payouts_applied, num_players, player_names, bankrolls, deck, dealer_hand,
    player_hands, current_player_idx, current_hand_idx, rounds, lim, hand, shoe, supabase, saved>>

flags == <<game_started, betting_phase, round_active, dealer_turn, round_over,
           payouts_applied>>
seats == <<num_players, player_names>>
pointer == <<current_player_idx, current_hand_idx>>

\* The session state set up on the first run of the script.
SessionInit ==
  /\ game_started = FALSE
  /\ betting_phase = TRUE
  /\ round_active = FALSE
  /\ dealer_turn = FALSE
  /\ round_over = FALSE
  /\ payouts_applied = FALSE
  /\ num_players = 1
  /\ player_names = <<>>
  /\ bankrolls = <<>>
  /\ deck = 0
  /\ dealer_hand = <<>>
  /\ player_hands = <<>>
  /\ current_player_idx = 0
  /\ current_hand_idx = 0

Init ==
  /\ SessionInit
  /\ rounds = 0
  /\ lim \in {WideTable, LongTable, PairTable, ShoeTable} \cup CutTables
  /\ hand = NewHand
  /\ shoe = NoDeck
  /\ supabase \in lim.clients
  /\ saved = <<>>

\* The cards the explored shoe orders may yield next, given the ranks on the
\* table.
Yields(seen) ==
  {c \in ShoeCards : \E g \in lim.groups : seen \cup {c[1]} \subseteq g}

\* ------------------------------------------------------------------ helpers

RECURSIVE SumSeq(_)
SumSeq(s) == IF s = <<>> THEN 0 ELSE Head(s) + SumSeq(Tail(s))

\* int(bet * 2.5)
BlackjackPayout(bet) == (bet * 5) \div 2

\* Mutant of payout: the push case is missing (equal values pay nothing).
payout_NoPush(h, dealer) ==
  LET dealer_value == get_value(dealer.cards)
      player_value == get_value(h.cards)
  IN  IF h.is_bust THEN 0
      ELSE IF h.is_blackjack /\ ~dealer.is_blackjack THEN BlackjackPayout(h.bet)
      ELSE IF dealer.is_bust THEN h.bet * 2
      ELSE IF player_value > dealer_value THEN h.bet * 2
      ELSE 0

\* Mutant of payout: a blackjack is paid 3:2 whatever the dealer holds.
payout_BlackjackAlways(h, dealer) ==
  LET dealer_value == get_value(dealer.cards)
      player_value == get_value(h.cards)
  IN  IF h.is_bust THEN 0
      ELSE IF h.is_blackjack THEN BlackjackPayout(h.bet)
      ELSE IF dealer.is_bust THEN h.bet * 2
      ELSE IF player_value > dealer_value THEN h.bet * 2
      ELSE IF player_value = dealer_value THEN h.bet
      ELSE 0

\* The if/elif chain of apply_payouts for one hand.
payout(h, dealer) ==
  LET dealer_value == get_value(dealer.cards)
      player_value == get_value(h.cards)
  IN  IF h.is_bust THEN 0
      ELSE IF h.is_blackjack /\ ~dealer.is_blackjack THEN BlackjackPayout(h.bet)
      ELSE IF dealer.is_bust THEN h.bet * 2
      ELSE IF player_value > dealer_value THEN h.bet * 2
      ELSE IF player_value = dealer_value THEN h.bet
      ELSE 0

\* Bankrolls after apply_payouts: every hand's payout credited to its owner.
apply_payouts(banks, phands, dealer) ==
  [nm \in DOMAIN banks |->
     banks[nm] + SumSeq([i \in 1..Len(phands) |->
                           IF phands[i].name = nm
                           THEN SumSeq([j \in 1..Len(phands[i].hands) |->
                                          payout(phands[i].hands[j], dealer)])
                           ELSE 0])]

\* The dealer's loop: add cards while the value is below 17.  The result is
\* the set of <<final hand, cards left in the shoe>> over the shoe's orders.
\* `seen` is the set of ranks on the table, which bounds the orders explored.
\* Mutant of DealerPlay: the dealer draws on a value of 17 as well.
RECURSIVE DealerPlay_Through17(_, _, _)
DealerPlay_Through17(h, n, seen) ==
  IF get_value(h.cards) <= DEALER_STAND
  THEN UNION {DealerPlay_Through17(add_card(h, c), deal_len(n), seen \cup {c[1]}) :
                c \in Yields(seen)}
  ELSE {<<h, n>>}

RECURSIVE DealerPlay(_, _, _)
DealerPlay(h, n, seen) ==
  IF get_value(h.cards) < DEALER_STAND
  THEN UNION {DealerPlay(add_card(h, c), deal_len(n), seen \cup {c[1]}) :
                c \in Yields(seen)}
  ELSE {<<h, n>>}

\* The current player / hand lookup of the playing phase (lines 789-798).
HasCurrent ==
  /\ Len(player_hands) > 0
  /\ ~dealer_turn
  /\ 0 <= current_player_idx /\ current_player_idx < Len(player_hands)
  /\ 0 <= current_hand_idx
  /\ current_hand_idx < Len(player_hands[current_player_idx + 1].hands)

cur_name == player_hands[current_player_idx + 1].name
cur_hands == player_hands[current_player_idx + 1].hands
current_hand == cur_hands[current_hand_idx + 1]

playable == ~current_hand.is_bust /\ ~current_hand.is_standing

InPlaying ==
  game_started /\ ~(betting_phase /\ ~round_active) /\ round_active /\ ~round_over

InBetting == game_started /\ betting_phase /\ ~round_active

InResults ==
  game_started /\ ~(betting_phase /\ ~round_active)
  /\ ~(round_active /\ ~round_over) /\ round_over

all_done ==
  /\ current_player_idx = Len(player_hands) - 1
  /\ current_hand_idx = Len(cur_hands) - 1
  /\ (current_hand.is_bust \/ current_hand.is_standing)

\* player_hands with the current hand replaced by h.
WithCurrent(h) ==
  [player_hands EXCEPT ![current_player_idx + 1].hands[current_hand_idx + 1] = h]

\* Cards drawn by hit, double and split so far in this round: every hand was
\* dealt two cards, and a split moves one card and draws two.
RECURSIVE CardsHeld(_)
CardsHeld(hs) == IF hs = <<>> THEN 0 ELSE Len(Head(hs).cards) + CardsHeld(Tail(hs))

Draws ==
  SumSeq([i \in 1..Len(player_hands) |-> CardsHeld(player_hands[i].hands)])
    - 2 * Len(player_hands)

\* Ranks of the cards on the table (players' hands and the dealer's).
PlayerHandSet ==
  UNION {{player_hands[i].hands[j] : j \in DOMAIN player_hands[i].hands} :
           i \in DOMAIN player_hands}

TableRanks ==
  UNION ({RanksOf(h.cards) : h \in PlayerHandSet}
           \cup {RanksOf(dealer_hand[i].cards) : i \in DOMAIN dealer_hand})

InsertAt(s, i, x) == SubSeq(s, 1, i) \o <<x>> \o SubSeq(s, i + 1, Len(s))

\* ------------------------------------------------------------------ actions

\* "Open Table" (setup phase).
OpenTable ==
  /\ ~game_started
  /\ \E n \in lim.seats :
       /\ num_players' = n
       /\ player_names' = [i \in 1..n |-> i]
       /\ bankrolls' = [i \in 1..n |-> STARTING_CHIPS]
  /\ deck' = FullShoe
  /\ game_started' = TRUE
  /\ betting_phase' = TRUE
  /\ dealer_hand' = <<>>
  /\ player_hands' = <<>>
  /\ current_player_idx' = 0
  /\ current_hand_idx' = 0
  /\ payouts_applied' = FALSE
  /\ UNCHANGED <<round_active, dealer_turn, round_over, rounds, lim, hand, shoe, supabase, saved>>

\* The orders in which the shuffled shoe (Deck._build) yields its next k
\* cards, as far as the session explores them.
ShoeOrders(k) ==
  IF lim.order # <<>> THEN {SubSeq(lim.order, 1, k)}
  ELSE {cs \in [1..k -> ShoeCards] : \E g \in lim.groups : RanksOf(cs) \subseteq g}

\* The values explored for one bet input, within the widget's range
\* [MIN_BET, bankroll]: an odd amount and the whole bankroll; a player below
\* MIN_BET gets bet 0.
BetInputs(max_bet) ==
  IF max_bet < MIN_BET THEN {0}
  ELSE {b \in {75, max_bet} : MIN_BET <= b /\ b <= max_bet}

\* Mutant of Betting: every player of the table is given a hand.
Betting_Everyone(bets) == player_names

\* Names with a positive bet, in player_names order.
Betting(bets) == SelectSeq(player_names, LAMBDA nm : bets[nm] > 0)

\* Mutant of DealtHands: each player is dealt two cards in a row.
DealtHands_TwoInARow(names, bets, cs) ==
  LET m == Len(names)
  IN  [k \in 1..m |->
         [name |-> names[k],
          hands |-> <<add_card(add_card([NewHand EXCEPT !.bet = bets[names[k]]],
                                        cs[2 * k - 1]), cs[2 * k])>>]]

\* The hands and the dealer hand after the two interleaved rounds of cards;
\* cs[k] is the k-th card the shoe yields.
DealtHands(names, bets, cs) ==
  LET m == Len(names)
  IN  [k \in 1..m |->
         [name |-> names[k],
          hands |-> <<add_card(add_card([NewHand EXCEPT !.bet = bets[names[k]]],
                                        cs[k]), cs[m + 1 + k])>>]]

DealtDealer(m, cs) == add_card(add_card(NewHand, cs[m + 1]), cs[2 * m + 2])

\* Mutant of DealCards: the turn pointer is left where the last round ended.
DealCards_KeepsPointer ==
  /\ InBetting
  /\ rounds < lim.rounds
  /\ \E bets \in [DOMAIN bankrolls ->
                    UNION {BetInputs(bankrolls[nm]) : nm \in DOMAIN bankrolls}] :
       /\ \A nm \in DOMAIN bankrolls : bets[nm] \in BetInputs(bankrolls[nm])
       /\ IF ~(\E nm \in DOMAIN bets : bets[nm] >= MIN_BET)
          THEN UNCHANGED vars
          ELSE LET names == Betting(bets)
                   m == Len(names)
               IN  /\ \E cs \in ShoeOrders(2 * m + 2) :
                        /\ player_hands' = DealtHands(names, bets, cs)
                        /\ dealer_hand' = <<DealtDealer(m, cs)>>
                   /\ bankrolls' = [nm \in DOMAIN bankrolls |-> bankrolls[nm] - bets[nm]]
                   /\ deck' = deal_len_n(deck, 2 * m + 2)
                   /\ betting_phase' = FALSE
                   /\ round_active' = TRUE
                   /\ dealer_turn' = FALSE
                   /\ round_over' = FALSE
                   /\ payouts_applied' = FALSE
                   /\ rounds' = rounds + 1
                   /\ UNCHANGED <<game_started, seats, pointer, lim, hand, shoe,
                                  supabase, saved>>

\* Mutant of DealCards: the round is dealt whatever the bets are.
DealCards_NoMinimum ==
  /\ InBetting
  /\ rounds < lim.rounds
  /\ \E bets \in [DOMAIN bankrolls ->
                    UNION {BetInputs(bankrolls[nm]) : nm \in DOMAIN bankrolls}] :
       /\ \A nm \in DOMAIN bankrolls : bets[nm] \in BetInputs(bankrolls[nm])
       /\ LET names == Betting(bets)
              m == Len(names)
          IN  /\ \E cs \in ShoeOrders(2 * m + 2) :
                   /\ player_hands' = DealtHands(names, bets, cs)
                   /\ dealer_hand' = <<DealtDealer(m, cs)>>
              /\ bankrolls' = [nm \in DOMAIN bankrolls |-> bankrolls[nm] - bets[nm]]
              /\ deck' = deal_len_n(deck, 2 * m + 2)
              /\ betting_phase' = FALSE
              /\ round_active' = TRUE
              /\ dealer_turn' = FALSE
              /\ round_over' = FALSE
              /\ payouts_applied' = FALSE
              /\ current_player_idx' = 0
              /\ current_hand_idx' = 0
              /\ rounds' = rounds + 1
              /\ UNCHANGED <<game_started, seats, lim, hand, shoe, supabase, saved>>

\* "Deal Cards" (betting phase).
DealCards ==
  /\ InBetting
  /\ rounds < lim.rounds
  /\ \E bets \in [DOMAIN bankrolls ->
                    UNION {BetInputs(bankrolls[nm]) : nm \in DOMAIN bankrolls}] :
       /\ \A nm \in DOMAIN bankrolls : bets[nm] \in BetInputs(bankrolls[nm])
       /\ IF ~(\E nm \in DOMAIN bets : bets[nm] >= MIN_BET)
          THEN UNCHANGED vars
          ELSE LET names == Betting(bets)
                   m == Len(names)
               IN  /\ \E cs \in ShoeOrders(2 * m + 2) :
                        /\ player_hands' = DealtHands(names, bets, cs)
                        /\ dealer_hand' = <<DealtDealer(m, cs)>>
                   /\ bankrolls' = [nm \in DOMAIN bankrolls |-> bankrolls[nm] - bets[nm]]
                   /\ deck' = deal_len_n(deck, 2 * m + 2)
                   /\ betting_phase' = FALSE
                   /\ round_active' = TRUE
                   /\ dealer_turn' = FALSE
                   /\ round_over' = FALSE
                   /\ payouts_applied' = FALSE
                   /\ current_player_idx' = 0
                   /\ current_hand_idx' = 0
                   /\ rounds' = rounds + 1
                   /\ UNCHANGED <<game_started, seats, lim, hand, shoe, supabase, saved>>

\* Mutant of Hit: the dealer's turn begins as soon as the card finishes the
\* last hand of the last player.
Hit_ThenDealer ==
  /\ InPlaying /\ HasCurrent
  /\ IF playable
     THEN /\ Draws + 1 <= lim.draws
          /\ \E c \in Yields(TableRanks) :
               LET h == add_card(current_hand, c)
               IN  /\ player_hands' = WithCurrent(h)
                   /\ dealer_turn' =
                        (/\ current_player_idx = Len(player_hands) - 1
                         /\ current_hand_idx = Len(cur_hands) - 1
                         /\ (h.is_bust \/ h.is_standing))
          /\ deck' = deal_len(deck)
     ELSE UNCHANGED <<player_hands, deck, dealer_turn>>
  /\ UNCHANGED <<game_started, betting_phase, round_active, round_over,
                 payouts_applied, seats, bankrolls, dealer_hand, pointer,
                 rounds, lim, hand, shoe, supabase, saved>>

\* Mutant of Hit: the card is added whether or not the hand is playable.
Hit_Always ==
  /\ InPlaying /\ HasCurrent
  /\ Draws + 1 <= lim.draws
  /\ \E c \in Yields(TableRanks) :
       player_hands' = WithCurrent(add_card(current_hand, c))
  /\ deck' = deal_len(deck)
  /\ UNCHANGED <<flags, seats, bankrolls, dealer_hand, pointer, rounds, lim, hand, shoe, supabase, saved>>

\* "Hit".
Hit ==
  /\ InPlaying /\ HasCurrent
  /\ IF playable
     THEN /\ Draws + 1 <= lim.draws
          /\ \E c \in Yields(TableRanks) :
               player_hands' = WithCurrent(add_card(current_hand, c))
          /\ deck' = deal_len(deck)
     ELSE UNCHANGED <<player_hands, deck>>
  /\ UNCHANGED <<flags, seats, bankrolls, dealer_hand, pointer, rounds, lim, hand, shoe, supabase, saved>>

\* Mutant of Stand: every hand of the current player is made to stand.
Stand_AllHands ==
  /\ InPlaying /\ HasCurrent
  /\ player_hands' =
       IF playable
       THEN [player_hands EXCEPT ![current_player_idx + 1].hands =
               [k \in DOMAIN @ |-> [@[k] EXCEPT !.is_standing = TRUE]]]
       ELSE player_hands
  /\ UNCHANGED <<flags, seats, bankrolls, deck, dealer_hand, pointer, rounds, lim, hand, shoe, supabase, saved>>

\* Mutant of Stand: a finished hand too is marked as standing.
Stand_Always ==
  /\ InPlaying /\ HasCurrent
  /\ player_hands' = WithCurrent([current_hand EXCEPT !.is_standing = TRUE])
  /\ UNCHANGED <<flags, seats, bankrolls, deck, dealer_hand, pointer, rounds, lim, hand, shoe, supabase, saved>>

\* "Stand".
Stand ==
  /\ InPlaying /\ HasCurrent
  /\ player_hands' = IF playable
                     THEN WithCurrent([current_hand EXCEPT !.is_standing = TRUE])
                     ELSE player_hands
  /\ UNCHANGED <<flags, seats, bankrolls, deck, dealer_hand, pointer, rounds, lim, hand, shoe, supabase, saved>>

\* Mutant of double_ok: the bankroll is not compared with the bet.
double_ok_NoChips == playable /\ can_double(current_hand)

double_ok ==
  playable /\ can_double(current_hand) /\ bankrolls[cur_name] >= current_hand.bet

\* Mutant of Double: the bankroll is debited after the bet was doubled.
Double_DebitsDoubledBet ==
  /\ InPlaying /\ HasCurrent
  /\ IF double_ok
     THEN /\ Draws + 1 <= lim.draws
          /\ bankrolls' = [bankrolls EXCEPT ![cur_name] = @ - 2 * current_hand.bet]
          /\ \E c \in Yields(TableRanks) :
               player_hands' =
                 WithCurrent([add_card([current_hand EXCEPT !.bet = @ * 2,
                                                            !.doubled = TRUE], c)
                                EXCEPT !.is_standing = TRUE])
          /\ deck' = deal_len(deck)
     ELSE UNCHANGED <<bankrolls, player_hands, deck>>
  /\ UNCHANGED <<flags, seats, dealer_hand, pointer, rounds, lim, hand, shoe, supabase, saved>>

\* Mutant of Double: the hand is not made to stand after its card.
Double_NoForcedStand ==
  /\ InPlaying /\ HasCurrent
  /\ IF double_ok
     THEN /\ Draws + 1 <= lim.draws
          /\ bankrolls' = [bankrolls EXCEPT ![cur_name] = @ - current_hand.bet]
          /\ \E c \in Yields(TableRanks) :
               player_hands' =
                 WithCurrent(add_card([current_hand EXCEPT !.bet = @ * 2,
                                                           !.doubled = TRUE], c))
          /\ deck' = deal_len(deck)
     ELSE UNCHANGED <<bankrolls, player_hands, deck>>
  /\ UNCHANGED <<flags, seats, dealer_hand, pointer, rounds, lim, hand, shoe, supabase, saved>>

\* "Double".
Double ==
  /\ InPlaying /\ HasCurrent
  /\ IF double_ok
     THEN /\ Draws + 1 <= lim.draws
          /\ bankrolls' = [bankrolls EXCEPT ![cur_name] = @ - current_hand.bet]
          /\ \E c \in Yields(TableRanks) :
               player_hands' =
                 WithCurrent([add_card([current_hand EXCEPT !.bet = @ * 2,
                                                            !.doubled = TRUE], c)
                                EXCEPT !.is_standing = TRUE])
          /\ deck' = deal_len(deck)
     ELSE UNCHANGED <<bankrolls, player_hands, deck>>
  /\ UNCHANGED <<flags, seats, dealer_hand, pointer, rounds, lim, hand, shoe, supabase, saved>>

\* Mutant of split_ok: the number of hands the player holds is not limited.
split_ok_NoCap ==
  /\ playable
  /\ can_split(current_hand)
  /\ bankrolls[cur_name] >= current_hand.bet

split_ok ==
  /\ playable
  /\ can_split(current_hand)
  /\ bankrolls[cur_name] >= current_hand.bet
  /\ Len(cur_hands) < MAX_HANDS

\* Mutant of Split: the new hand is given its one card and made to stand.
Split_NewHandStands ==
  /\ InPlaying /\ HasCurrent
  /\ IF split_ok
     THEN /\ Draws + 2 <= lim.draws
          /\ \E c1 \in Yields(TableRanks) :
             \E c2 \in Yields(TableRanks \cup {c1[1]}) :
               LET second_card == current_hand.cards[Len(current_hand.cards)]
                   popped == [current_hand EXCEPT
                                !.cards = SubSeq(@, 1, Len(@) - 1)]
                   new_hand == [NewHand EXCEPT !.bet = current_hand.bet,
                                               !.cards = <<second_card>>]
                   first == add_card(popped, c1)
                   second == [add_card(new_hand, c2) EXCEPT !.is_standing = TRUE]
               IN  player_hands' =
                     [player_hands EXCEPT ![current_player_idx + 1].hands =
                        InsertAt([@ EXCEPT ![current_hand_idx + 1] = first],
                                 current_hand_idx + 1, second)]
          /\ bankrolls' = [bankrolls EXCEPT ![cur_name] = @ - current_hand.bet]
          /\ deck' = deal_len_n(deck, 2)
     ELSE UNCHANGED <<bankrolls, player_hands, deck>>
  /\ UNCHANGED <<flags, seats, dealer_hand, pointer, rounds, lim, hand, shoe, supabase, saved>>

\* Mutant of Split: the new hand is appended after the player's last hand.
Split_Appends ==
  /\ InPlaying /\ HasCurrent
  /\ IF split_ok
     THEN /\ Draws + 2 <= lim.draws
          /\ \E c1 \in Yields(TableRanks) :
             \E c2 \in Yields(TableRanks \cup {c1[1]}) :
               LET second_card == current_hand.cards[Len(current_hand.cards)]
                   popped == [current_hand EXCEPT
                                !.cards = SubSeq(@, 1, Len(@) - 1)]
                   new_hand == [NewHand EXCEPT !.bet = current_hand.bet,
                                               !.cards = <<second_card>>]
                   first == add_card(popped, c1)
                   second == add_card(new_hand, c2)
               IN  player_hands' =
                     [player_hands EXCEPT ![current_player_idx + 1].hands =
                        Append([@ EXCEPT ![current_hand_idx + 1] = first], second)]
          /\ bankrolls' = [bankrolls EXCEPT ![cur_name] = @ - current_hand.bet]
          /\ deck' = deal_len_n(deck, 2)
     ELSE UNCHANGED <<bankrolls, player_hands, deck>>
  /\ UNCHANGED <<flags, seats, dealer_hand, pointer, rounds, lim, hand, shoe, supabase, saved>>


\* Mutant of Split: the bet of the new hand is not taken from the bankroll.
Split_NoDebit ==
  /\ InPlaying /\ HasCurrent
  /\ IF split_ok
     THEN /\ Draws + 2 <= lim.draws
          /\ \E c1 \in Yields(TableRanks) :
             \E c2 \in Yields(TableRanks \cup {c1[1]}) :
               LET second_card == current_hand.cards[Len(current_hand.cards)]
                   popped == [current_hand EXCEPT
                                !.cards = SubSeq(@, 1, Len(@) - 1)]
                   new_hand == [NewHand EXCEPT !.bet = current_hand.bet,
                                               !.cards = <<second_card>>]
                   first == add_card(popped, c1)
                   second == add_card(new_hand, c2)
               IN  player_hands' =
                     [player_hands EXCEPT ![current_player_idx + 1].hands =
                        InsertAt([@ EXCEPT ![current_hand_idx + 1] = first],
                                 current_hand_idx + 1, second)]
          /\ deck' = deal_len_n(deck, 2)
          /\ UNCHANGED bankrolls
     ELSE UNCHANGED <<bankrolls, player_hands, deck>>
  /\ UNCHANGED <<flags, seats, dealer_hand, pointer, rounds, lim, hand, shoe, supabase, saved>>


\* Mutant of Split: the two cards drawn are appended to the hands' card lists
\* without add_card, so the hands' flags stay as they were.
Split_RawCards ==
  /\ InPlaying /\ HasCurrent
  /\ IF split_ok
     THEN /\ Draws + 2 <= lim.draws
          /\ \E c1 \in Yields(TableRanks) :
             \E c2 \in Yields(TableRanks \cup {c1[1]}) :
               LET second_card == current_hand.cards[Len(current_hand.cards)]
                   popped == [current_hand EXCEPT
                                !.cards = SubSeq(@, 1, Len(@) - 1)]
                   new_hand == [NewHand EXCEPT !.bet = current_hand.bet,
                                               !.cards = <<second_card>>]
                   first == [popped EXCEPT !.cards = Append(@, c1)]
                   second == [new_hand EXCEPT !.cards = Append(@, c2)]
               IN  player_hands' =
                     [player_hands EXCEPT ![current_player_idx + 1].hands =
                        InsertAt([@ EXCEPT ![current_hand_idx + 1] = first],
                                 current_hand_idx + 1, second)]
          /\ bankrolls' = [bankrolls EXCEPT ![cur_name] = @ - current_hand.bet]
          /\ deck' = deal_len_n(deck, 2)
     ELSE UNCHANGED <<bankrolls, player_hands, deck>>
  /\ UNCHANGED <<flags, seats, dealer_hand, pointer, rounds, lim, hand, shoe, supabase, saved>>

\* "Split".
Split ==
  /\ InPlaying /\ HasCurrent
  /\ IF split_ok
     THEN /\ Draws + 2 <= lim.draws
          /\ \E c1 \in Yields(TableRanks) :
             \E c2 \in Yields(TableRanks \cup {c1[1]}) :
               LET second_card == current_hand.cards[Len(current_hand.cards)]
                   popped == [current_hand EXCEPT
                                !.cards = SubSeq(@, 1, Len(@) - 1)]
                   new_hand == [NewHand EXCEPT !.bet = current_hand.bet,
                                               !.cards = <<second_card>>]
                   first == add_card(popped, c1)
                   second == add_card(new_hand, c2)
               IN  player_hands' =
                     [player_hands EXCEPT ![current_player_idx + 1].hands =
                        InsertAt([@ EXCEPT ![current_hand_idx + 1] = first],
                                 current_hand_idx + 1, second)]
          /\ bankrolls' = [bankrolls EXCEPT ![cur_name] = @ - current_hand.bet]
          /\ deck' = deal_len_n(deck, 2)
     ELSE UNCHANGED <<bankrolls, player_hands, deck>>
  /\ UNCHANGED <<flags, seats, dealer_hand, pointer, rounds, lim, hand, shoe, supabase, saved>>


\* Mutant of PreviousHand: the hand the pointer moves back onto is open again.
PreviousHand_Reopens ==
  /\ InPlaying /\ HasCurrent
  /\ IF current_hand_idx > 0
     THEN /\ current_hand_idx' = current_hand_idx - 1
          /\ UNCHANGED current_player_idx
     ELSE IF current_player_idx > 0
     THEN /\ current_player_idx' = current_player_idx - 1
          /\ current_hand_idx' = Len(player_hands[current_player_idx].hands) - 1
     ELSE UNCHANGED pointer
  /\ player_hands' =
       [player_hands EXCEPT
          ![current_player_idx' + 1].hands[current_hand_idx' + 1].is_standing = FALSE]
  /\ UNCHANGED <<flags, seats, bankrolls, deck, dealer_hand, rounds, lim, hand, shoe, supabase, saved>>

\* "Previous Hand".
PreviousHand ==
  /\ InPlaying /\ HasCurrent
  /\ IF current_hand_idx > 0
     THEN /\ current_hand_idx' = current_hand_idx - 1
          /\ UNCHANGED current_player_idx
     ELSE IF current_player_idx > 0
     THEN /\ current_player_idx' = current_player_idx - 1
          /\ current_hand_idx' = Len(player_hands[current_player_idx].hands) - 1
     ELSE UNCHANGED pointer
  /\ UNCHANGED <<flags, seats, bankrolls, deck, dealer_hand, player_hands, rounds, lim, hand, shoe, supabase, saved>>

\* Mutant of NextHand: the pointer advances from an unfinished hand too.
NextHand_NoCheck ==
  /\ InPlaying /\ HasCurrent
  /\ ~all_done
  /\ IF current_hand_idx < Len(cur_hands) - 1
     THEN /\ current_hand_idx' = current_hand_idx + 1
          /\ UNCHANGED <<current_player_idx, dealer_turn>>
     ELSE IF current_player_idx < Len(player_hands) - 1
     THEN /\ current_player_idx' = current_player_idx + 1
          /\ current_hand_idx' = 0
          /\ UNCHANGED dealer_turn
     ELSE /\ dealer_turn' = TRUE
          /\ UNCHANGED pointer
  /\ UNCHANGED <<game_started, betting_phase, round_active, round_over,
                 payouts_applied, seats, bankrolls, deck, dealer_hand,
                 player_hands, rounds, lim, hand, shoe, supabase, saved>>

\* Mutant of NextHand: the player's first hand is examined in place of the
\* current hand.
NextHand_ChecksFirstHand ==
  /\ InPlaying /\ HasCurrent
  /\ ~all_done
  /\ IF ~cur_hands[1].is_standing /\ ~cur_hands[1].is_bust
     THEN UNCHANGED <<pointer, dealer_turn>>
     ELSE IF current_hand_idx < Len(cur_hands) - 1
     THEN /\ current_hand_idx' = current_hand_idx + 1
          /\ UNCHANGED <<current_player_idx, dealer_turn>>
     ELSE IF current_player_idx < Len(player_hands) - 1
     THEN /\ current_player_idx' = current_player_idx + 1
          /\ current_hand_idx' = 0
          /\ UNCHANGED dealer_turn
     ELSE /\ dealer_turn' = TRUE
          /\ UNCHANGED pointer
  /\ UNCHANGED <<game_started, betting_phase, round_active, round_over,
                 payouts_applied, seats, bankrolls, deck, dealer_hand,
                 player_hands, rounds, lim, hand, shoe, supabase, saved>>

\* Mutant of NextHand: the hand index is kept on moving to the next player.
NextHand_KeepsHandIdx ==
  /\ InPlaying /\ HasCurrent
  /\ ~all_done
  /\ IF ~current_hand.is_standing /\ ~current_hand.is_bust
     THEN UNCHANGED <<pointer, dealer_turn>>
     ELSE IF current_hand_idx < Len(cur_hands) - 1
     THEN /\ current_hand_idx' = current_hand_idx + 1
          /\ UNCHANGED <<current_player_idx, dealer_turn>>
     ELSE IF current_player_idx < Len(player_hands) - 1
     THEN /\ current_player_idx' = current_player_idx + 1
          /\ current_hand_idx' = current_hand_idx
          /\ UNCHANGED dealer_turn
     ELSE /\ dealer_turn' = TRUE
          /\ UNCHANGED pointer
  /\ UNCHANGED <<game_started, betting_phase, round_active, round_over,
                 payouts_applied, seats, bankrolls, deck, dealer_hand,
                 player_hands, rounds, lim, hand, shoe, supabase, saved>>


\* Mutant of NextHand: the button is offered on the last finished hand too.
NextHand_OfferedWhenDone ==
  /\ InPlaying /\ HasCurrent
  /\ IF ~current_hand.is_standing /\ ~current_hand.is_bust
     THEN UNCHANGED <<pointer, dealer_turn>>
     ELSE IF current_hand_idx < Len(cur_hands) - 1
     THEN /\ current_hand_idx' = current_hand_idx + 1
          /\ UNCHANGED <<current_player_idx, dealer_turn>>
     ELSE IF current_player_idx < Len(player_hands) - 1
     THEN /\ current_player_idx' = current_player_idx + 1
          /\ current_hand_idx' = 0
          /\ UNCHANGED dealer_turn
     ELSE /\ dealer_turn' = TRUE
          /\ UNCHANGED pointer
  /\ UNCHANGED <<game_started, betting_phase, round_active, round_over,
                 payouts_applied, seats, bankrolls, deck, dealer_hand,
                 player_hands, rounds, lim, hand, shoe, supabase, saved>>

\* "Next Hand" (shown while not all_done).
NextHand ==
  /\ InPlaying /\ HasCurrent
  /\ ~all_done
  /\ IF ~current_hand.is_standing /\ ~current_hand.is_bust
     THEN UNCHANGED <<pointer, dealer_turn>>
     ELSE IF current_hand_idx < Len(cur_hands) - 1
     THEN /\ current_hand_idx' = current_hand_idx + 1
          /\ UNCHANGED <<current_player_idx, dealer_turn>>
     ELSE IF current_player_idx < Len(player_hands) - 1
     THEN /\ current_player_idx' = current_player_idx + 1
          /\ current_hand_idx' = 0
          /\ UNCHANGED dealer_turn
     ELSE /\ dealer_turn' = TRUE
          /\ UNCHANGED pointer
  /\ UNCHANGED <<game_started, betting_phase, round_active, round_over,
                 payouts_applied, seats, bankrolls, deck, dealer_hand,
                 player_hands, rounds, lim, hand, shoe, supabase, saved>>

\* "Reveal Dealer" (shown when all_done).
RevealDealer ==
  /\ InPlaying /\ HasCurrent
  /\ all_done
  /\ dealer_turn' = TRUE
  /\ \E r \in DealerPlay(dealer_hand[1], deck, TableRanks) :
       /\ dealer_hand' = <<r[1]>>
       /\ deck' = r[2]
       /\ bankrolls' = IF ~payouts_applied
                       THEN apply_payouts(bankrolls, player_hands, r[1])
                       ELSE bankrolls
  /\ payouts_applied' = (IF ~payouts_applied THEN TRUE ELSE payouts_applied)
  /\ round_over' = TRUE
  /\ UNCHANGED <<game_started, betting_phase, round_active, seats, player_hands,
                 pointer, rounds, lim, hand, shoe, supabase, saved>>

\* save_round_to_supabase: the values it may return.  Without a client it
\* returns at once; with one, the rows of the round are inserted, and the
\* outcome is the service's: success, an error in the response, or an
\* exception.  No argument is assigned to.
save_round_to_supabase(supabase_client, dealer, phands, banks) ==
  IF supabase_client = NoClient
  THEN {<<FALSE, "Supabase client not initialized.">>}
  ELSE {<<TRUE, "Saved round to Supabase.">>,
        <<FALSE, "Supabase insert error">>,
        <<FALSE, "Exception when inserting to Supabase">>}

\* "Save to Supabase" (results phase).
SaveToSupabase ==
  /\ InResults /\ lim.saves
  /\ saved' \in save_round_to_supabase(supabase, dealer_hand[1], player_hands,
                                       bankrolls)
  /\ UNCHANGED <<flags, seats, bankrolls, deck, dealer_hand, player_hands,
                 pointer, rounds, lim, hand, shoe, supabase>>

\* Mutant of SaveAndNextRound: the results stay when the save fails.
SaveAndNextRound_StaysOnFailure ==
  /\ InResults /\ lim.saves
  /\ saved' \in save_round_to_supabase(supabase, dealer_hand[1], player_hands,
                                       bankrolls)
  /\ IF saved'[1]
     THEN /\ betting_phase' = TRUE
          /\ round_active' = FALSE
          /\ round_over' = FALSE
          /\ dealer_turn' = FALSE
          /\ payouts_applied' = FALSE
          /\ dealer_hand' = <<>>
          /\ player_hands' = <<>>
     ELSE UNCHANGED <<betting_phase, round_active, round_over, dealer_turn,
                      payouts_applied, dealer_hand, player_hands>>
  /\ UNCHANGED <<game_started, seats, bankrolls, deck, pointer, rounds, lim,
                 hand, shoe, supabase>>

\* "Save and Next Round" (results phase).
SaveAndNextRound ==
  /\ InResults /\ lim.saves
  /\ saved' \in save_round_to_supabase(supabase, dealer_hand[1], player_hands,
                                       bankrolls)
  /\ betting_phase' = TRUE
  /\ round_active' = FALSE
  /\ round_over' = FALSE
  /\ dealer_turn' = FALSE
  /\ payouts_applied' = FALSE
  /\ dealer_hand' = <<>>
  /\ player_hands' = <<>>
  /\ UNCHANGED <<game_started, seats, bankrolls, deck, pointer, rounds, lim,
                 hand, shoe, supabase>>

\* Mutant of NextRound: the payouts are applied once more on leaving the
\* results phase.
NextRound_Repay ==
  /\ InResults
  /\ betting_phase' = TRUE
  /\ round_active' = FALSE
  /\ round_over' = FALSE
  /\ dealer_turn' = FALSE
  /\ payouts_applied' = FALSE
  /\ bankrolls' = apply_payouts(bankrolls, player_hands, dealer_hand[1])
  /\ dealer_hand' = <<>>
  /\ player_hands' = <<>>
  /\ UNCHANGED <<game_started, seats, deck, pointer, rounds, lim, hand, shoe, supabase, saved>>

\* Mutant of NextRound: the next round can be started from the playing phase.
NextRound_FromPlaying ==
  /\ InPlaying
  /\ betting_phase' = TRUE
  /\ round_active' = FALSE
  /\ round_over' = FALSE
  /\ dealer_turn' = FALSE
  /\ payouts_applied' = FALSE
  /\ dealer_hand' = <<>>
  /\ player_hands' = <<>>
  /\ UNCHANGED <<game_started, seats, bankrolls, deck, pointer, rounds, lim, hand, shoe, supabase, saved>>

\* "Next Round (no save)" (results phase); "Save and Next Round" makes the
\* same assignments after its save.
NextRound ==
  /\ InResults
  /\ betting_phase' = TRUE
  /\ round_active' = FALSE
  /\ round_over' = FALSE
  /\ dealer_turn' = FALSE
  /\ payouts_applied' = FALSE
  /\ dealer_hand' = <<>>
  /\ player_hands' = <<>>
  /\ UNCHANGED <<game_started, seats, bankrolls, deck, pointer, rounds, lim, hand, shoe, supabase, saved>>

\* "Restart Table" (sidebar): the session state is cleared and set up anew.
RestartTable ==
  /\ game_started
  /\ game_started' = FALSE
  /\ betting_phase' = TRUE
  /\ round_active' = FALSE
  /\ dealer_turn' = FALSE
  /\ round_over' = FALSE
  /\ payouts_applied' = FALSE
  /\ num_players' = 1
  /\ player_names' = <<>>
  /\ bankrolls' = <<>>
  /\ deck' = 0
  /\ dealer_hand' = <<>>
  /\ player_hands' = <<>>
  /\ current_player_idx' = 0
  /\ current_hand_idx' = 0
  /\ rounds' = 0
  /\ supabase' \in lim.clients
  /\ saved' = <<>>
  /\ UNCHANGED <<lim, hand, shoe>>

Next ==
  \/ OpenTable
  \/ DealCards
  \/ Hit
  \/ Stand
  \/ Double
  \/ Split
  \/ PreviousHand
  \/ NextHand
  \/ RevealDealer
  \/ SaveToSupabase
  \/ SaveAndNextRound
  \/ NextRound
  \/ RestartTable

Spec == Init /\ [][Next]_vars

\* ------------------------------------------- the Hand class on its own

\* Hand.add_card on a stand-alone Hand, with any card of the deck.
AddCard ==
  /\ Len(hand.cards) < MaxLen
  /\ \E c \in AllCards : hand' = add_card(hand, c)
  /\ UNCHANGED <<flags, seats, bankrolls, deck, dealer_hand, player_hands,
                 pointer, rounds, lim, shoe, supabase, saved>>

InitHand ==
  /\ SessionInit
  /\ rounds = 0
  /\ lim = WideTable
  /\ hand = NewHand
  /\ shoe = NoDeck
  /\ supabase = NoClient
  /\ saved = <<>>

SpecHand == InitHand /\ [][AddCard]_vars

\* ------------------------------------------- the Deck class on its own

\* Deck.deal() on a stand-alone Deck.
Deal ==
  /\ shoe' \in deal(shoe)
  /\ UNCHANGED <<flags, seats, bankrolls, deck, dealer_hand, player_hands,
                 pointer, rounds, lim, hand, supabase, saved>>

\* Deck(num_decks): the constructor builds the shoe.
InitDeck ==
  /\ SessionInit
  /\ rounds = 0
  /\ lim = WideTable
  /\ hand = NewHand
  /\ \E n \in DeckCounts :
       shoe \in build([num_decks |-> n, cards |-> <<>>, dealt |-> <<>>])
  /\ supabase = NoClient
  /\ saved = <<>>

SpecDeck == InitDeck /\ [][Deal]_vars

\* ---------------------------------------------------------------- claims

AllHandSet == PlayerHandSet \cup {dealer_hand[i] : i \in DOMAIN dealer_hand}

\* The step on which the round is settled (Reveal Dealer).
Settles == ~round_over /\ round_over'

\* The rule of C1, each case with the negation of the cases before it.
RulePayout(h, d) ==
  LET hv == get_value(h.cards)
      dv == get_value(d.cards)
  IN  CASE h.is_bust -> 0
        [] ~h.is_bust /\ h.is_blackjack /\ ~d.is_blackjack ->
             CHOOSE n \in 0..(3 * h.bet) : 2 * n <= 5 * h.bet /\ 5 * h.bet < 2 * (n + 1)
        [] ~h.is_bust /\ ~(h.is_blackjack /\ ~d.is_blackjack) /\ d.is_bust -> h.bet * 2
        [] ~h.is_bust /\ ~(h.is_blackjack /\ ~d.is_blackjack) /\ ~d.is_bust /\ hv > dv ->
             h.bet * 2
        [] ~h.is_bust /\ ~(h.is_blackjack /\ ~d.is_blackjack) /\ ~d.is_bust /\ hv = dv ->
             h.bet
        [] ~h.is_bust /\ ~(h.is_blackjack /\ ~d.is_blackjack) /\ ~d.is_bust /\ hv < dv -> 0

\* What the rule credits to the player at position i of player_hands.
RuleCredit(i, d) ==
  SumSeq([j \in 1..Len(player_hands[i].hands) |->
            RulePayout(player_hands[i].hands[j], d)])

\* C1: on the settling step every participating player's bankroll grows by
\* the sum, over the player's hands, of the payout the first-match rule gives
\* (bust 0; blackjack against no dealer blackjack floor(2.5 bet); dealer bust
\* 2 bet; higher value 2 bet; equal value bet; otherwise 0).
C1_PayoutRule ==
  [][Settles =>
       \A i \in DOMAIN player_hands :
         bankrolls'[player_hands[i].name] =
           bankrolls[player_hands[i].name] + RuleCredit(i, dealer_hand'[1])]_vars

\* A settled round in which a blackjack with an odd bet was paid 3:2 and
\* another hand lost to the dealer's value.
C1_Witness ==
  /\ round_over
  /\ \E h \in PlayerHandSet :
       h.is_blackjack /\ ~dealer_hand[1].is_blackjack /\ h.bet % 2 = 1
  /\ \E h \in PlayerHandSet :
       ~h.is_bust /\ get_value(h.cards) < get_value(dealer_hand[1].cards)
       /\ ~dealer_hand[1].is_bust

\* C2: once the payouts of a round are applied, no step of that round (none
\* but a table restart) changes any bankroll: they are credited once.
C2_PaidOnce ==
  [][(payouts_applied /\ game_started') => bankrolls' = bankrolls]_vars

\* A settled round whose payouts raised a bankroll above the starting stack.
C2_Witness ==
  /\ round_over /\ payouts_applied
  /\ \E nm \in DOMAIN bankrolls : bankrolls[nm] > STARTING_CHIPS

\* C3: every bankroll is a non-negative integer in every reachable state.
C3_BankrollNonNegative ==
  \A nm \in DOMAIN bankrolls : bankrolls[nm] \in Nat

\* A two-card hand that could be doubled or split, but its player has fewer
\* chips than the hand's bet.
C3_Witness ==
  /\ InPlaying /\ HasCurrent
  /\ playable /\ can_double(current_hand) /\ can_split(current_hand)
  /\ bankrolls[cur_name] < current_hand.bet

\* C4: the dealer is revealed (dealer_turn or round_over set) only with every
\* hand of every participating player standing or bust.
C4_RevealOnlyWhenAllDone ==
  (dealer_turn \/ round_over) =>
    \A h \in PlayerHandSet : h.is_standing \/ h.is_bust

\* A settled round of two players, the first of whom split.
C4_Witness ==
  /\ round_over
  /\ Len(player_hands) = 2
  /\ Len(player_hands[1].hands) = 2

\* The total of a hand with every Ace counted as 1, and its number of Aces.
HardTotal(cards) ==
  SumSeq([i \in DOMAIN cards |->
            IF cards[i][1] = "A" THEN 1 ELSE CARD_VALUES(cards[i][1])])

NumAces(cards) == Cardinality({i \in DOMAIN cards : cards[i][1] = "A"})

\* C5: get_value is one of the totals obtained by counting each Ace as 1 or
\* 11; it exceeds 21 only if the total with every Ace as 1 does (and is then
\* that total); otherwise it is the largest such total not above 21.
C5_SoftValue ==
  LET v == get_value(hand.cards)
      hard == HardTotal(hand.cards)
      totals == {hard + 10 * k : k \in 0..NumAces(hand.cards)}
  IN  /\ v \in totals
      /\ (v > 21 => hard > 21 /\ v = hard)
      /\ (hard <= 21 => v <= 21 /\ \A t \in totals : t <= 21 => t <= v)

\* A hand with two Aces, one counted as 11 and one as 1 (such as A, A, 9).
C5_Witness ==
  /\ Len(hand.cards) = 3
  /\ NumAces(hand.cards) = 2
  /\ get_value(hand.cards) = 21

\* C6: in every state, every player hand and the dealer hand has its bust
\* flag set exactly when its value is above 21.
C6_BustFlag ==
  \A h \in AllHandSet : h.is_bust <=> get_value(h.cards) > 21

\* A doubled hand that went bust, beside a dealer hand.
C6_Witness ==
  /\ dealer_hand # <<>>
  /\ \E h \in PlayerHandSet : h.doubled /\ h.is_bust /\ get_value(h.cards) > 21

\* C7: in every state, every player hand and the dealer hand has its
\* blackjack flag set exactly when it holds two cards of value 21.
C7_BlackjackFlag ==
  \A h \in AllHandSet :
    h.is_blackjack <=> (Len(h.cards) = 2 /\ get_value(h.cards) = 21)

\* A player who split holds a two-card 21 flagged blackjack.
C7_Witness ==
  \E i \in DOMAIN player_hands :
    /\ Len(player_hands[i].hands) >= 2
    /\ \E j \in DOMAIN player_hands[i].hands :
         /\ player_hands[i].hands[j].is_blackjack
         /\ Len(player_hands[i].hands[j].cards) = 2

\* C8: every hand of value 21 is standing and not bust, and a hand that is
\* neither standing nor bust has a value of at most 20.
C8_AutoStand ==
  \A h \in AllHandSet :
    /\ get_value(h.cards) = 21 => h.is_standing /\ ~h.is_bust
    /\ (~h.is_standing /\ ~h.is_bust) => get_value(h.cards) <= 20

\* A hand hit to 21 with its third card (not doubled), standing.
C8_Witness ==
  \E h \in PlayerHandSet :
    /\ Len(h.cards) = 3 /\ ~h.doubled
    /\ get_value(h.cards) = 21 /\ h.is_standing

\* C9: on the settling step, a player all of whose hands are blackjacks is
\* credited exactly the bets of those hands when the dealer has a blackjack.
C9_BlackjackPush ==
  [][(Settles /\ dealer_hand'[1].is_blackjack) =>
       \A i \in DOMAIN player_hands :
         (\A j \in DOMAIN player_hands[i].hands :
            player_hands[i].hands[j].is_blackjack)
         => bankrolls'[player_hands[i].name] =
              bankrolls[player_hands[i].name]
                + SumSeq([j \in DOMAIN player_hands[i].hands |->
                            player_hands[i].hands[j].bet])]_vars

\* A settled round with a player blackjack against a dealer blackjack.
C9_Witness ==
  /\ round_over
  /\ dealer_hand[1].is_blackjack
  /\ \E h \in PlayerHandSet : h.is_blackjack

IsPrefix(a, b) == Len(a) <= Len(b) /\ SubSeq(b, 1, Len(a)) = a

\* C10: can_split holds exactly for the hands of two cards of equal rank, and
\* within a round a hand holding three or more cards keeps its cards (at its
\* position, or one further after a split before it) and cannot be split.
C10_CanSplit ==
  /\ [](\A h \in AllHandSet :
          can_split(h) <=> (Len(h.cards) = 2 /\ h.cards[1][1] = h.cards[2][1]))
  /\ [][(rounds' = rounds /\ player_hands' # <<>>) =>
          \A i \in DOMAIN player_hands :
            \A j \in DOMAIN player_hands[i].hands :
              Len(player_hands[i].hands[j].cards) >= 3 =>
                \E k \in {j, j + 1} \cap DOMAIN player_hands'[i].hands :
                  /\ IsPrefix(player_hands[i].hands[j].cards,
                              player_hands'[i].hands[k].cards)
                  /\ ~can_split(player_hands'[i].hands[k])]_vars

\* A playable two-card hand of equal values and different ranks (K, Q), and
\* another hand of three cards whose first two ranks are equal.
C10_Witness ==
  /\ InPlaying
  /\ \E h \in PlayerHandSet :
       /\ Len(h.cards) = 2 /\ ~h.is_standing
       /\ h.cards[1][1] # h.cards[2][1]
       /\ CARD_VALUES(h.cards[1][1]) = CARD_VALUES(h.cards[2][1])
  /\ \E h \in PlayerHandSet :
       Len(h.cards) = 3 /\ h.cards[1][1] = h.cards[2][1]

\* The number of hands of the player at position i of player_hands.
NumHands(phands, i) == Len(phands[i].hands)

\* C11: in every state every participating player holds between 1 and 4
\* hands; during a round no player's number of hands decreases; and a step of
\* the round on which a player's number of hands grows (a split) starts from a
\* current hand of exactly two cards of equal rank, with the player's bankroll
\* at least the hand's bet and the player holding fewer than 4 hands, and
\* grows that player's hands by one.
C11_SplitGuard ==
  /\ [](\A i \in DOMAIN player_hands :
          1 <= NumHands(player_hands, i) /\ NumHands(player_hands, i) <= 4)
  /\ [][(round_active /\ round_active') =>
          /\ DOMAIN player_hands' = DOMAIN player_hands
          /\ \A i \in DOMAIN player_hands :
               /\ player_hands'[i].name = player_hands[i].name
               /\ NumHands(player_hands', i) >= NumHands(player_hands, i)
               /\ NumHands(player_hands', i) > NumHands(player_hands, i) =>
                    /\ HasCurrent /\ i = current_player_idx + 1
                    /\ NumHands(player_hands', i) = NumHands(player_hands, i) + 1
                    /\ Len(current_hand.cards) = 2
                    /\ current_hand.cards[1][1] = current_hand.cards[2][1]
                    /\ bankrolls[cur_name] >= current_hand.bet
                    /\ NumHands(player_hands, i) < 4]_vars

\* A player holding four hands after three splits, the current one a
\* playable pair whose bet the bankroll covers: a further split is refused.
C11_Witness ==
  /\ InPlaying /\ HasCurrent
  /\ Len(cur_hands) = 4
  /\ playable /\ can_split(current_hand)
  /\ bankrolls[cur_name] >= current_hand.bet

\* A step of the playing phase on which the current player gains a hand.
SplitStep ==
  /\ InPlaying /\ HasCurrent
  /\ DOMAIN player_hands' = DOMAIN player_hands
  /\ NumHands(player_hands', current_player_idx + 1) = Len(cur_hands) + 1

\* C12: on a split step the current hand keeps its first card and its bet
\* and holds two cards; the hand right after it is new, holds the current
\* hand's second card and one more card, and has the same bet; the hands
\* before keep their places, the hands after move one place on, the other
\* players' hands are untouched; the player's bankroll goes down by exactly
\* that bet and no other bankroll changes; two cards leave the shoe; the
\* pointer stays.
C12_SplitEffect ==
  [][SplitStep =>
       LET i == current_player_idx + 1
           j == current_hand_idx + 1
           after == player_hands'[i].hands
       IN  /\ Len(after[j].cards) = 2
           /\ after[j].cards[1] = current_hand.cards[1]
           /\ after[j].bet = current_hand.bet
           /\ Len(after[j + 1].cards) = 2
           /\ after[j + 1].cards[1] = current_hand.cards[2]
           /\ after[j + 1].bet = current_hand.bet
           /\ ~after[j + 1].doubled
           /\ \A k \in 1..(j - 1) : after[k] = cur_hands[k]
           /\ \A k \in (j + 1)..Len(cur_hands) : after[k + 1] = cur_hands[k]
           /\ \A q \in DOMAIN player_hands \ {i} :
                player_hands'[q] = player_hands[q]
           /\ bankrolls' = [bankrolls EXCEPT ![cur_name] = @ - current_hand.bet]
           /\ deck >= 16 => deck' = deck - 2
           /\ pointer' = pointer]_vars

\* Three unfinished two-card hands with the pointer on the first: the second
\* split put its new hand between the first hand and the hand of the first
\* split, and the two differ.
C12_Witness ==
  /\ InPlaying /\ HasCurrent
  /\ current_player_idx = 0 /\ current_hand_idx = 0
  /\ Len(cur_hands) = 3
  /\ \A k \in 1..3 : Len(cur_hands[k].cards) = 2 /\ ~cur_hands[k].is_standing
  /\ cur_hands[2].cards # cur_hands[3].cards
  /\ bankrolls[cur_name] = STARTING_CHIPS - 3 * cur_hands[1].bet

\* The place, after a step of the round, of the hand that was the j-th hand of
\* the player at position i: one further when a split put a hand before it.
PlaceAfter(i, j) ==
  IF SplitStep /\ i = current_player_idx + 1 /\ j > current_hand_idx + 1
  THEN j + 1 ELSE j

\* C13: during a round a doubled hand stays doubled and keeps its bet, and a
\* hand's bet changes or its doubled mark is set only on the current hand,
\* when it holds exactly two cards, is not doubled yet and the player's
\* bankroll is at least its bet; the bet is then twice what it was.  So no
\* hand is doubled twice and no bet exceeds twice the bet the hand was
\* created with.
C13_DoubleGuard ==
  [][(round_active /\ round_active' /\ player_hands' # player_hands) =>
       \A i \in DOMAIN player_hands :
         \A j \in DOMAIN player_hands[i].hands :
           LET before == player_hands[i].hands[j]
               after == player_hands'[i].hands[PlaceAfter(i, j)]
           IN  /\ before.doubled => after.doubled /\ after.bet = before.bet
               /\ (after.bet # before.bet \/ after.doubled # before.doubled) =>
                    /\ HasCurrent
                    /\ i = current_player_idx + 1 /\ j = current_hand_idx + 1
                    /\ Len(before.cards) = 2
                    /\ ~before.doubled
                    /\ bankrolls[player_hands[i].name] >= before.bet
                    /\ after.doubled
                    /\ after.bet = 2 * before.bet]_vars

\* A doubled hand next to an undoubled hand of the same player, split from
\* it: the doubled hand's bet is twice the other's.
C13_Witness ==
  \E i \in DOMAIN player_hands :
    \E j, k \in DOMAIN player_hands[i].hands :
      /\ player_hands[i].hands[j].doubled
      /\ ~player_hands[i].hands[k].doubled
      /\ player_hands[i].hands[j].bet = 2 * player_hands[i].hands[k].bet

\* A step of the playing phase on which the current hand becomes doubled.
DoubleStep ==
  /\ InPlaying /\ HasCurrent
  /\ ~current_hand.doubled
  /\ DOMAIN player_hands' = DOMAIN player_hands
  /\ DOMAIN player_hands'[current_player_idx + 1].hands = DOMAIN cur_hands
  /\ player_hands'[current_player_idx + 1].hands[current_hand_idx + 1].doubled

\* C14: on a double step the player's bankroll goes down by the bet the hand
\* had before and no other bankroll changes; the hand's bet is twice that
\* bet; the hand holds its former cards and exactly one more; it is standing,
\* and it is bust exactly when its value exceeds 21; no other hand changes,
\* one card leaves the shoe and the pointer stays.
C14_DoubleEffect ==
  [][DoubleStep =>
       LET after == player_hands'[current_player_idx + 1].hands[current_hand_idx + 1]
       IN  /\ bankrolls' = [bankrolls EXCEPT ![cur_name] = @ - current_hand.bet]
           /\ after.bet = 2 * current_hand.bet
           /\ Len(after.cards) = Len(current_hand.cards) + 1
           /\ IsPrefix(current_hand.cards, after.cards)
           /\ after.is_standing
           /\ after.is_bust <=> get_value(after.cards) > 21
           /\ player_hands' = WithCurrent(after)
           /\ deck >= 15 => deck' = deck - 1
           /\ pointer' = pointer]_vars

\* A doubled hand whose third card took it over 21: bust and standing, its
\* bet twice 75 and the bankroll down by both halves.
C14_Witness ==
  /\ InPlaying /\ HasCurrent
  /\ current_hand.doubled
  /\ Len(current_hand.cards) = 3
  /\ get_value(current_hand.cards) > 21
  /\ current_hand.is_bust /\ current_hand.is_standing
  /\ current_hand.bet = 150
  /\ Len(cur_hands) = 1
  /\ bankrolls[cur_name] = STARTING_CHIPS - 150

\* C15: during a round a hand that is standing or bust keeps its cards; and
\* on a step that is neither a split nor a double, a hand's cards change only
\* if it is the current hand of the playing phase and is neither standing nor
\* bust, and then it holds its former cards and exactly one more, with the
\* same bet, while no other hand, no bankroll and not the pointer changes and
\* one card leaves the shoe.
C15_HitGuard ==
  [][(round_active /\ round_active' /\ player_hands' # player_hands) =>
       \A i \in DOMAIN player_hands :
         \A j \in DOMAIN player_hands[i].hands :
           LET before == player_hands[i].hands[j]
               after == player_hands'[i].hands[PlaceAfter(i, j)]
           IN  /\ (before.is_standing \/ before.is_bust) =>
                    after.cards = before.cards
               /\ (~SplitStep /\ ~DoubleStep /\ after.cards # before.cards) =>
                    /\ InPlaying /\ HasCurrent
                    /\ i = current_player_idx + 1 /\ j = current_hand_idx + 1
                    /\ ~before.is_standing /\ ~before.is_bust
                    /\ Len(after.cards) = Len(before.cards) + 1
                    /\ IsPrefix(before.cards, after.cards)
                    /\ after.bet = before.bet
                    /\ player_hands' = WithCurrent(after)
                    /\ bankrolls' = bankrolls
                    /\ deck >= 15 => deck' = deck - 1
                    /\ pointer' = pointer]_vars

\* The current hand was hit over 21 with its third card and the round's
\* players may still draw: a further hit adds nothing.
C15_Witness ==
  /\ InPlaying /\ HasCurrent
  /\ Len(cur_hands) = 1
  /\ Len(current_hand.cards) = 3 /\ ~current_hand.doubled
  /\ current_hand.is_bust
  /\ Draws < lim.draws

\* C16: a Next Hand step taken while the current hand is neither standing
\* nor bust changes nothing: not the pointer, and no other variable.
C16_NextHandRejected ==
  [][(NextHand /\ ~current_hand.is_standing /\ ~current_hand.is_bust) =>
       UNCHANGED vars]_vars

\* The pointer is on the second hand of the first of two players; that hand
\* is neither standing nor bust, the hand before it is finished, and Next
\* Hand is offered.
C16_Witness ==
  /\ InPlaying /\ HasCurrent /\ ~all_done
  /\ Len(player_hands) = 2
  /\ current_player_idx = 0 /\ current_hand_idx = 1
  /\ ~current_hand.is_standing /\ ~current_hand.is_bust
  /\ cur_hands[1].is_standing

\* The pointer q is further on in the round than the pointer p.
Forward(p, q) == q[1] > p[1] \/ (q[1] = p[1] /\ q[2] > p[2])

\* Where an advance from the current hand leads: the next hand of the same
\* player if there is one, otherwise the first hand of the next player.
NextPlace ==
  IF current_hand_idx < Len(cur_hands) - 1
  THEN <<current_player_idx, current_hand_idx + 1>>
  ELSE <<current_player_idx + 1, 0>>

\* C17: whenever the current hand is standing or bust and is not the last
\* hand of the last player, Next Hand can move the pointer to the next hand of
\* the same player if there is one and otherwise to hand 0 of the next
\* participating player; and every step that moves the pointer forward is
\* taken in the playing phase from a current hand that is standing or bust,
\* leads to exactly that place, lands on a hand of the round and changes
\* nothing else.
C17_Advance ==
  /\ []((InPlaying /\ HasCurrent /\ ~all_done
           /\ (current_hand.is_standing \/ current_hand.is_bust))
          => ENABLED (NextHand /\ pointer' = NextPlace))
  /\ [][Forward(pointer, pointer') =>
          /\ InPlaying /\ HasCurrent
          /\ current_hand.is_standing \/ current_hand.is_bust
          /\ pointer' = NextPlace
          /\ current_player_idx' < Len(player_hands)
          /\ current_hand_idx' < Len(player_hands[current_player_idx' + 1].hands)
          /\ UNCHANGED <<flags, seats, bankrolls, deck, dealer_hand,
                         player_hands, rounds>>]_vars

\* The pointer is on the first hand of the second player after both hands of
\* the first player, who split, were finished and passed.
C17_Witness ==
  /\ InPlaying /\ HasCurrent
  /\ current_player_idx = 1 /\ current_hand_idx = 0
  /\ Len(player_hands[1].hands) = 2
  /\ \A k \in 1..2 :
       player_hands[1].hands[k].is_standing \/ player_hands[1].hands[k].is_bust

\* The value of the first k cards.
ValueOfFirst(cards, k) == get_value(SubSeq(cards, 1, k))

\* C18: on the settling step the dealer keeps the cards dealt and adds cards
\* from the shoe; the value before each added card is below 17 and the value
\* at the end is at least 17, so that the hand is the shortest continuation
\* reaching 17, and one card leaves the shoe for each card added.  In every
\* settled state the dealer's value is at least 17 and the value before the
\* last card of a hand of three or more cards is below 17.  Of the dealer
\* hands a resolution can end with, none continues another: the shoe order
\* fixes the hand.
C18_DealerDraws ==
  /\ [](round_over =>
          /\ get_value(dealer_hand[1].cards) >= 17
          /\ Len(dealer_hand[1].cards) >= 3 =>
               ValueOfFirst(dealer_hand[1].cards, Len(dealer_hand[1].cards) - 1) < 17)
  /\ []((InPlaying /\ HasCurrent /\ all_done) =>
          \A r1, r2 \in DealerPlay(dealer_hand[1], deck, TableRanks) :
            IsPrefix(r1[1].cards, r2[1].cards) => r1 = r2)
  /\ [][Settles =>
          LET before == dealer_hand[1].cards
              after == dealer_hand'[1].cards
          IN  /\ Len(before) = 2
              /\ IsPrefix(before, after)
              /\ \A k \in 2..(Len(after) - 1) : ValueOfFirst(after, k) < 17
              /\ get_value(after) >= 17
              /\ deck >= 15 + Len(after) => deck' = deck - (Len(after) - 2)]_vars

\* A settled round whose dealer drew two cards or more and did not bust.
C18_Witness ==
  /\ round_over
  /\ Len(dealer_hand[1].cards) >= 4
  /\ get_value(dealer_hand[1].cards) >= 17
  /\ get_value(dealer_hand[1].cards) <= 21

\* The step on which a round is dealt.
DealStep == ~round_active /\ round_active'

\* What the bankroll of nm goes down by on a step.
Placed(nm) == bankrolls[nm] - bankrolls'[nm]

\* C19: on the dealing step every player's bankroll goes down by nothing or
\* by a bet between the minimum bet and the bankroll; the players of the
\* round are, in seat order, exactly those whose bankroll went down, each
\* with exactly one hand, of two cards, whose bet is that amount; the dealer
\* holds two cards; the shoe gave its first cards to the players' hands in
\* seat order, the next to the dealer, the following ones to the players'
\* hands again and the one after those to the dealer; that many cards left
\* the shoe, and the pointer is on the first hand.
C19_Deal ==
  [][DealStep =>
       LET m == Len(player_hands')
       IN  /\ DOMAIN bankrolls' = DOMAIN bankrolls
           /\ \A nm \in DOMAIN bankrolls :
                /\ Placed(nm) = 0
                     \/ (MIN_BET <= Placed(nm) /\ Placed(nm) <= bankrolls[nm])
                /\ Cardinality({k \in 1..m : player_hands'[k].name = nm})
                     = IF Placed(nm) > 0 THEN 1 ELSE 0
           /\ m >= 1
           /\ \A k \in 1..m :
                /\ player_hands'[k].name \in DOMAIN bankrolls
                /\ \A q \in 1..(k - 1) :
                     player_hands'[q].name < player_hands'[k].name
                /\ Len(player_hands'[k].hands) = 1
                /\ player_hands'[k].hands[1].bet = Placed(player_hands'[k].name)
                /\ Len(player_hands'[k].hands[1].cards) = 2
                /\ ~player_hands'[k].hands[1].doubled
                /\ ~player_hands'[k].hands[1].is_bust
           /\ Len(dealer_hand') = 1
           /\ Len(dealer_hand'[1].cards) = 2
           /\ dealer_hand'[1].bet = 0
           /\ lim.order # <<>> =>
                /\ \A k \in 1..m :
                     player_hands'[k].hands[1].cards =
                       <<lim.order[k], lim.order[m + 1 + k]>>
                /\ dealer_hand'[1].cards =
                     <<lim.order[m + 1], lim.order[2 * m + 2]>>
           /\ deck >= 15 + 2 * m + 2 => deck' = deck - (2 * m + 2)
           /\ current_player_idx' = 0 /\ current_hand_idx' = 0
           /\ ~round_over' /\ ~dealer_turn' /\ ~payouts_applied']_vars

\* Two players just dealt from a shoe of known order, one betting 75 and
\* the other the whole bankroll.
C19_Witness ==
  /\ InPlaying
  /\ lim.order # <<>>
  /\ Len(player_hands) = 2
  /\ \A k \in 1..2 :
       /\ Len(player_hands[k].hands) = 1
       /\ Len(player_hands[k].hands[1].cards) = 2
       /\ ~player_hands[k].hands[1].is_standing
  /\ player_hands[1].hands[1].bet = 75 /\ bankrolls[1] = STARTING_CHIPS - 75
  /\ player_hands[2].hands[1].bet = STARTING_CHIPS /\ bankrolls[2] = 0

\* The player nm holds a hand in phands.
HoldsHand(phands, nm) == \E k \in DOMAIN phands : phands[k].name = nm

\* C20: on the dealing step a player whose bankroll is below the minimum bet
\* keeps the bankroll and gets no hand; during the round a player without a
\* hand gets none and keeps the bankroll, up to and including the settling
\* step; and in every state of a round the players without a hand are the
\* players with less than the minimum bet, and the pointer's player, if the
\* pointer has one, holds a hand.
C20_BrokePlayer ==
  /\ [](round_active =>
          /\ \A nm \in DOMAIN bankrolls :
               ~HoldsHand(player_hands, nm) => bankrolls[nm] < 50
          /\ (0 <= current_player_idx /\ current_player_idx < Len(player_hands))
               => HoldsHand(player_hands, player_hands[current_player_idx + 1].name))
  /\ [][DealStep =>
          \A nm \in DOMAIN bankrolls :
            bankrolls[nm] < 50 =>
              bankrolls'[nm] = bankrolls[nm] /\ ~HoldsHand(player_hands', nm)]_vars
  /\ [][(round_active /\ round_active') =>
          \A nm \in DOMAIN bankrolls :
            ~HoldsHand(player_hands, nm) =>
              bankrolls'[nm] = bankrolls[nm] /\ ~HoldsHand(player_hands', nm)]_vars

\* The second round is settled; the first player lost the whole bankroll in
\* the first round and sat this one out, and the pointer is on the second
\* player's hand.
C20_Witness ==
  /\ round_over /\ rounds = 2
  /\ Len(player_names) = 2
  /\ bankrolls[1] = 0
  /\ ~HoldsHand(player_hands, 1)
  /\ HoldsHand(player_hands, 2)
  /\ current_player_idx = 0

\* How many times the card c occurs in the list s.
Copies(s, c) == Cardinality({i \in DOMAIN s : s[i] = c})

\* C21: every deal() returns a card of the deck.  From a shoe of 15 cards or
\* more it returns the last card of the list and leaves the rest.  From a shoe
\* of fewer than 15 cards it returns a card of a fresh shoe: the card returned
\* and the cards left are num_decks * 52 cards, each rank and suit exactly
\* num_decks times.  The shoe a card is taken from is never empty, and after
\* a deal the shoe holds at least 14 cards.
C21_DealReturnsCard ==
  /\ [](shoe.dealt # <<>> =>
          /\ shoe.dealt[1] \in RANKS \X SUITS
          /\ Len(shoe.cards) >= 14
          /\ Len(shoe.cards) < shoe.num_decks * 52)
  /\ [][shoe' # shoe =>
          /\ shoe'.dealt # <<>>
          /\ shoe'.num_decks = shoe.num_decks
          /\ Len(shoe.cards) >= 15 =>
               /\ Len(shoe.cards) > 0
               /\ shoe'.dealt[1] = shoe.cards[Len(shoe.cards)]
               /\ shoe'.cards = SubSeq(shoe.cards, 1, Len(shoe.cards) - 1)
          /\ Len(shoe.cards) < 15 =>
               /\ Len(shoe'.cards) = shoe.num_decks * 52 - 1
               /\ \A c \in RANKS \X SUITS :
                    Copies(shoe'.cards \o shoe'.dealt, c) = shoe.num_decks]_vars

\* A six-deck shoe dealt down to 14 cards: the next deal rebuilds it.
C21_Witness ==
  /\ shoe.num_decks = 6
  /\ shoe.dealt # <<>>
  /\ Len(shoe.cards) = 14

\* The step from the results of a round to the betting of the next.
NextRoundStep == InResults /\ InBetting'

\* C22: the step from the results phase to the next betting phase clears the
\* dealer hand, the player hands and the round-over, dealer-turn and
\* payouts-applied flags, leaves every bankroll unchanged and puts the pointer
\* on (0, 0).
C22_NextRoundResets ==
  [][NextRoundStep =>
       /\ dealer_hand' = <<>>
       /\ player_hands' = <<>>
       /\ ~round_over' /\ ~dealer_turn' /\ ~payouts_applied'
       /\ bankrolls' = bankrolls
       /\ current_player_idx' = 0 /\ current_hand_idx' = 0]_vars

\* The phase of the round as the script's if/elif chain reads it from the
\* round flags (lines 651, 752, 759, 1092).
RoundPhase ==
  IF betting_phase /\ ~round_active THEN "Betting"
  ELSE IF round_active /\ ~round_over
       THEN (IF dealer_turn THEN "DealerResolving" ELSE "Playing")
  ELSE IF round_over THEN "Settled"
  ELSE "None"

\* The phase changes of the round's cycle.  Reveal Dealer resolves the dealer
\* and settles in one step, so Playing may be followed by Settled directly.
PhaseCycle ==
  {<<"Betting", "Playing">>, <<"Playing", "DealerResolving">>,
   <<"DealerResolving", "Settled">>, <<"Playing", "Settled">>,
   <<"Settled", "Betting">>}

\* A phase change along the cycle; Settled is entered with the dealer resolved
\* (turn taken, value of 17 or more) and the payouts applied.
AlongCycle ==
  /\ <<RoundPhase, RoundPhase'>> \in PhaseCycle
  /\ RoundPhase' = "Settled" =>
       /\ dealer_turn' /\ payouts_applied'
       /\ get_value(dealer_hand'[1].cards) >= 17

\* C23 as stated: every change of the round phase is a change along the cycle
\* Betting, Playing, DealerResolving, Settled, Betting.
C23_PhaseOrder ==
  [][RoundPhase' # RoundPhase => AlongCycle]_vars

\* C23 amended: every change of the round phase is a change along the cycle,
\* or is made by Restart Table, which from any phase gives up the table (no
\* game started, no players, bankrolls or hands) without settling the round.
C23_PhaseOrderOrRestart ==
  [][RoundPhase' # RoundPhase =>
       \/ game_started /\ game_started' /\ AlongCycle
       \/ /\ game_started /\ ~game_started'
          /\ RoundPhase' = "Betting"
          /\ player_names' = <<>> /\ bankrolls' = <<>>
          /\ player_hands' = <<>> /\ dealer_hand' = <<>>]_vars

\* The betting phase after a round that was dealt, played and settled with a
\* loss: the cycle was gone through once.
C23_Witness ==
  /\ InBetting
  /\ rounds = 1
  /\ \E nm \in DOMAIN bankrolls : bankrolls[nm] < STARTING_CHIPS

\* A value save_round_to_supabase returns: a pair of a success flag and a
\* message.
SaveReport(r) ==
  /\ Len(r) = 2
  /\ r[1] \in BOOLEAN
  /\ r[2] \in {"Supabase client not initialized.", "Saved round to Supabase.",
               "Supabase insert error", "Exception when inserting to Supabase"}

\* A step in which a save was made and reported.
SaveStep == saved' # saved /\ saved' # <<>>

\* C24: a save, whether it succeeds or fails, is made in the results phase and
\* changes no bankroll; "Save to Supabase" also changes no player hand and not
\* the dealer hand, and "Save and Next Round" clears them as the next round
\* does.  The save reports <<ok, message>>, with ok false when there is no
\* client.  In every results state "Save and Next Round" can fail to save and
\* still reach the betting phase, with the bankrolls as settled.
C24_SaveKeepsGame ==
  /\ [][SaveStep =>
          /\ InResults
          /\ SaveReport(saved')
          /\ supabase = NoClient => ~saved'[1]
          /\ bankrolls' = bankrolls
          /\ \/ /\ InResults'
                /\ player_hands' = player_hands
                /\ dealer_hand' = dealer_hand
             \/ NextRoundStep]_vars
  /\ []((InResults /\ lim.saves) =>
          ENABLED (/\ SaveAndNextRound
                   /\ ~saved'[1]
                   /\ InBetting'
                   /\ bankrolls' = bankrolls))

\* The betting phase reached through a failed save of a round that changed a
\* bankroll, on a table that has a client.
C24_Witness ==
  /\ InBetting
  /\ rounds = 1
  /\ supabase # NoClient
  /\ saved # <<>>
  /\ ~saved[1]
  /\ \E nm \in DOMAIN bankrolls : bankrolls[nm] # STARTING_CHIPS

\* A press of Hit, Stand, Double or Split whose precondition does not hold:
\* the current hand is finished (any of the four), or cannot be doubled, or
\* cannot be split, or the bankroll is below the hand's bet.
RefusedAction ==
  /\ InPlaying /\ HasCurrent
  /\ \/ ~playable /\ Hit
     \/ ~playable /\ Stand
     \/ ~double_ok /\ Double
     \/ ~split_ok /\ Split

\* C25: Hit, Stand, Double or Split requested when its precondition does not
\* hold changes nothing: bankrolls, hands, shoe, pointer and phase flags are
\* as before.  And no step of the playing phase changes a player hand unless
\* the current hand was playable.
C25_RefusedIsNoOp ==
  /\ [][RefusedAction => UNCHANGED vars]_vars
  /\ [][(InPlaying /\ InPlaying' /\ player_hands' # player_hands) =>
          HasCurrent /\ playable]_vars

\* A playable pair of two cards whose owner has fewer chips than its bet:
\* Hit and Stand are accepted, Double and Split are refused.
C25_Witness ==
  /\ InPlaying /\ HasCurrent
  /\ playable
  /\ can_split(current_hand) /\ can_double(current_hand)
  /\ Len(cur_hands) < MAX_HANDS
  /\ bankrolls[cur_name] < current_hand.bet

\* The hand h beats the dealer without a blackjack: it is not bust, and the
\* dealer is bust or has the lower value.
WinsPlain(h, dealer) ==
  /\ ~h.is_bust /\ ~h.is_blackjack
  /\ dealer.is_bust \/ get_value(h.cards) > get_value(dealer.cards)

\* C26: in the first round of a table (bankroll B = STARTING_CHIPS), for a
\* player holding one hand placed with bet b: the bankroll is B - b after the
\* deal, B - 2b after the double, when the hand's bet is 2b, and B + 2b after
\* the settlement of a doubled hand that wins without blackjack.
C26_DoubledWin ==
  (rounds = 1 /\ (InPlaying \/ InResults)) =>
    \A i \in DOMAIN player_hands :
      LET nm == player_hands[i].name
          h == player_hands[i].hands[1]
          b == IF h.doubled THEN h.bet \div 2 ELSE h.bet
      IN  Len(player_hands[i].hands) = 1 =>
            /\ b >= MIN_BET
            /\ h.doubled => h.bet = 2 * b
            /\ (InPlaying /\ ~h.doubled) => bankrolls[nm] = STARTING_CHIPS - b
            /\ (InPlaying /\ h.doubled) => bankrolls[nm] = STARTING_CHIPS - 2 * b
            /\ (InResults /\ h.doubled /\ WinsPlain(h, dealer_hand[1])) =>
                 bankrolls[nm] = STARTING_CHIPS + 2 * b

\* A settled first round in which a bet of 75 was doubled and won with three
\* cards: the bankroll went 1000, 925, 850 and is now 1150.
C26_Witness ==
  /\ InResults /\ rounds = 1
  /\ \E i \in DOMAIN player_hands :
       LET h == player_hands[i].hands[1]
       IN  /\ Len(player_hands[i].hands) = 1
           /\ h.doubled /\ h.bet = 150
           /\ WinsPlain(h, dealer_hand[1])
           /\ bankrolls[player_hands[i].name] = 1150

\* A hand as a split leaves it: two cards, not bust, not doubled, and open to
\* play, the one exception being the hand that add_card made stand on 21.
OpenAfterSplit(h) ==
  /\ Len(h.cards) = 2
  /\ ~h.is_bust /\ ~h.doubled
  /\ h.is_standing <=> get_value(h.cards) = 21

RECURSIVE NoReshuffle(_, _)
NoReshuffle(n, k) ==
  k = 0 \/ (n # 0 /\ n >= RESHUFFLE_BELOW /\ NoReshuffle(n - 1, k - 1))

\* C28: the step that deals a round to N hands and the dealer puts two cards
\* in each of the N + 1 hands, and takes exactly 2N + 2 cards off the shoe
\* when none of its 2N + 2 deals rebuilds the shoe.
C28_DealRemoves ==
  [][DealStep =>
       LET N == Len(player_hands')
       IN  /\ \A i \in 1..N : /\ Len(player_hands'[i].hands) = 1
                              /\ Len(player_hands'[i].hands[1].cards) = 2
           /\ Len(dealer_hand'[1].cards) = 2
           /\ NoReshuffle(deck, 2 * N + 2) => deck' = deck - (2 * N + 2)]_vars

\* The last round dealt from the first shoe without a rebuild: one hand and
\* the dealer took the shoe from 20 cards to 16, and the next deal to one hand
\* will rebuild it at its third card.
C28_Witness ==
  /\ InPlaying
  /\ Len(player_hands) = 1
  /\ deck = 2 * Len(player_hands) + 14
  /\ ~NoReshuffle(deck, 2 * Len(player_hands) + 2)
  /\ rounds > 1

\* No player of the table can place a bet: every bankroll is below MIN_BET,
\* so that every bet of the betting form is 0.
NoBetPossible ==
  /\ game_started
  /\ \A nm \in DOMAIN bankrolls : bankrolls[nm] < MIN_BET

\* C29: the step from the betting phase to the playing phase is taken with at
\* least one bet of MIN_BET or more, placed on a hand and debited from its
\* owner; and Deal Cards requested when no bet reaches MIN_BET changes
\* nothing: the phase flags, the hands, the shoe and the bankrolls stay.
C29_DealNeedsBet ==
  /\ [][DealStep =>
          \E i \in DOMAIN player_hands' :
            LET nm == player_hands'[i].name
                b == player_hands'[i].hands[1].bet
            IN  b >= MIN_BET /\ bankrolls'[nm] = bankrolls[nm] - b]_vars
  /\ [][(InBetting /\ NoBetPossible /\ DealCards) => UNCHANGED vars]_vars

\* The betting phase of a second round with every player out of chips: Deal
\* Cards can be requested and is rejected.
C29_Witness ==
  /\ InBetting /\ NoBetPossible
  /\ rounds >= 1 /\ rounds < lim.rounds

\* A step of the playing phase that changes a player hand: a Hit, Stand,
\* Double or Split that was accepted.
PlayStep ==
  /\ InPlaying /\ HasCurrent
  /\ game_started'
  /\ player_hands' # player_hands

\* C30: a step of Hit, Stand, Double or Split leaves the turn pointer and the
\* phase flags as they are, also when it leaves the current hand standing or
\* bust, and also when that hand is the last hand of the last player: the
\* pointer moves with Next Hand and Previous Hand only, and the dealer's turn
\* comes with Reveal Dealer only.
C30_ActionsKeepPointer ==
  [][PlayStep => (pointer' = pointer /\ UNCHANGED flags
                  /\ RoundPhase' = "Playing")]_vars

\* The last hand of the last of two players went bust on a third card: the
\* pointer is still on the bust hand and the round is still in the playing
\* phase, with the dealer's turn not begun.
C30_Witness ==
  /\ InPlaying /\ HasCurrent /\ all_done
  /\ Len(player_hands) = 2
  /\ current_hand.is_bust /\ Len(current_hand.cards) = 3
  /\ RoundPhase = "Playing"

\* C31: a step of the playing phase that changes a player hand (an accepted
\* Hit, Stand, Double or Split) leaves the dealer hand, the hands of every
\* other player, every other hand of the current player (one place further on
\* when a split put its new hand before it) and every other player's bankroll
\* as they were; the current player gains one hand at most, put right after
\* the current hand.  And no step that stays in the playing phase changes the
\* dealer hand or a bankroll without changing a player hand.
C31_ActionFrame ==
  /\ [][PlayStep =>
          LET i == current_player_idx + 1
              j == current_hand_idx + 1
              after == player_hands'[i].hands
          IN  /\ dealer_hand' = dealer_hand
              /\ DOMAIN player_hands' = DOMAIN player_hands
              /\ \A q \in DOMAIN player_hands \ {i} :
                   player_hands'[q] = player_hands[q]
              /\ player_hands'[i].name = cur_name
              /\ Len(after) \in {Len(cur_hands), Len(cur_hands) + 1}
              /\ \A k \in DOMAIN cur_hands \ {j} :
                   after[PlaceAfter(i, k)] = cur_hands[k]
              /\ DOMAIN bankrolls' = DOMAIN bankrolls
              /\ \A nm \in DOMAIN bankrolls \ {cur_name} :
                   bankrolls'[nm] = bankrolls[nm]]_vars
  /\ [][(InPlaying /\ InPlaying' /\ player_hands' = player_hands) =>
          (dealer_hand' = dealer_hand /\ bankrolls' = bankrolls)]_vars

\* The second of two players has doubled: the hand and the bankroll of the
\* first, who stood on two cards, and the dealer's two cards are as dealt.
C31_Witness ==
  /\ InPlaying /\ HasCurrent
  /\ Len(player_hands) = 2 /\ current_player_idx = 1
  /\ current_hand.doubled
  /\ bankrolls[cur_name] = STARTING_CHIPS - current_hand.bet
  /\ LET first == player_hands[1]
     IN  /\ Len(first.hands) = 1
         /\ Len(first.hands[1].cards) = 2
         /\ first.hands[1].is_standing /\ ~first.hands[1].doubled
         /\ bankrolls[first.name] = STARTING_CHIPS - first.hands[1].bet
  /\ Len(dealer_hand[1].cards) = 2

\* ------------------------------------------- the dealer's loop on its own

\* Mutant of DealerDraw: the card is taken off the shoe and not added to the
\* dealer hand.
DealerDraw_NoCard ==
  /\ InPlaying /\ dealer_turn
  /\ get_value(dealer_hand[1].cards) < DEALER_STAND
  /\ deck' = deal_len(deck)
  /\ UNCHANGED <<flags, seats, bankrolls, dealer_hand, player_hands, pointer,
                 rounds, lim, hand, shoe, supabase, saved>>

\* One turn of the while loop of Reveal Dealer, with a card of any rank.
DealerDraw ==
  /\ InPlaying /\ dealer_turn
  /\ get_value(dealer_hand[1].cards) < DEALER_STAND
  /\ \E c \in AllCards : dealer_hand' = <<add_card(dealer_hand[1], c)>>
  /\ deck' = deal_len(deck)
  /\ UNCHANGED <<flags, seats, bankrolls, player_hands, pointer, rounds, lim,
                 hand, shoe, supabase, saved>>

\* The rest of Reveal Dealer once the loop is left.
DealerSettle ==
  /\ InPlaying /\ dealer_turn
  /\ ~(get_value(dealer_hand[1].cards) < DEALER_STAND)
  /\ bankrolls' = IF ~payouts_applied
                  THEN apply_payouts(bankrolls, player_hands, dealer_hand[1])
                  ELSE bankrolls
  /\ payouts_applied' = TRUE
  /\ round_over' = TRUE
  /\ UNCHANGED <<game_started, betting_phase, round_active, dealer_turn, seats,
                 deck, dealer_hand, player_hands, pointer, rounds, lim, hand,
                 shoe, supabase, saved>>

\* Reveal Dealer has set dealer_turn in the first round of a table of one
\* player, who stands on the dealt hand; the dealer holds any two cards.
InitDealer ==
  /\ game_started = TRUE
  /\ betting_phase = FALSE
  /\ round_active = TRUE
  /\ dealer_turn = TRUE
  /\ round_over = FALSE
  /\ payouts_applied = FALSE
  /\ num_players = 1
  /\ player_names = <<1>>
  /\ bankrolls = <<STARTING_CHIPS - MIN_BET>>
  /\ deck = deal_len_n(FullShoe, 4)
  /\ \E c1, c2 \in AllCards :
       dealer_hand = <<add_card(add_card(NewHand, c1), c2)>>
  /\ player_hands =
       <<[name |-> 1,
          hands |-> <<[add_card(add_card([NewHand EXCEPT !.bet = MIN_BET],
                                         <<"K", "S">>), <<"8", "S">>)
                         EXCEPT !.is_standing = TRUE]>>]>>
  /\ current_player_idx = 0
  /\ current_hand_idx = 0
  /\ rounds = 1
  /\ lim = WideTable
  /\ hand = NewHand
  /\ shoe = NoDeck
  /\ supabase = NoClient
  /\ saved = <<>>

\* What every step of the handler does to the shoe's size and to round_over:
\* a turn of the loop takes a card off the shoe, the statements after the loop
\* end the round.
HandlerStep ==
  /\ InPlaying /\ dealer_turn
  /\ IF get_value(dealer_hand[1].cards) < DEALER_STAND
     THEN deck' = deal_len(deck) /\ round_over' = round_over
     ELSE deck' = deck /\ round_over' = TRUE

\* The handler runs on: between its first statement and its last it is never
\* left waiting, the script being sequential code with no input.
SpecDealer ==
  /\ InitDealer
  /\ [][DealerDraw \/ DealerSettle]_vars
  /\ WF_<<deck, round_over>>(HandlerStep)

\* C32: from every two-card dealer hand, and whatever cards the shoe yields,
\* the dealer's loop is left and the round is settled with the dealer on 17
\* or more.
C32_DealerTerminates ==
  <>(round_over /\ get_value(dealer_hand[1].cards) >= DEALER_STAND)

\* A settled round whose dealer held Ace and 5, drew a ten-value card that
\* left the value at 16, and drew again.
C32_Witness ==
  /\ round_over /\ dealer_turn
  /\ LET cards == dealer_hand[1].cards
     IN  /\ Len(cards) >= 4
         /\ cards[1][1] = "A" /\ cards[2][1] = "5"
         /\ CARD_VALUES(cards[3][1]) = 10
         /\ get_value(SubSeq(cards, 1, 2)) = 16
         /\ get_value(SubSeq(cards, 1, 3)) = 16

\* C33: in every state of the playing phase the turn pointer addresses a hand:
\* current_player_idx is an index into the players holding hands, and
\* current_hand_idx an index into that player's hands.
C33_PointerInBounds ==
  InPlaying =>
    /\ 0 <= current_player_idx
    /\ current_player_idx < Len(player_hands)
    /\ 0 <= current_hand_idx
    /\ current_hand_idx < Len(player_hands[current_player_idx + 1].hands)

\* The second round of a table of two, dealt to one player only, the other
\* being out of chips after a round in which the pointer went on to the second
\* player.
C33_Witness ==
  /\ InPlaying
  /\ rounds = 2
  /\ num_players = 2
  /\ Len(player_hands) = 1
  /\ pointer = <<0, 0>>

\* C34: during a round a player hand that is standing or bust is never changed
\* again: on every step that stays within the round it is the same hand, with
\* the same cards, bet and flags (one place further on when a hand before it
\* in the player's list is split), whether or not the turn pointer is on it.
C34_FinishedHandFrozen ==
  [][(round_active /\ round_active' /\ player_hands' # player_hands) =>
       \A i \in DOMAIN player_hands :
         \A j \in DOMAIN player_hands[i].hands :
           LET h == player_hands[i].hands[j]
           IN  (h.is_standing \/ h.is_bust) =>
                 /\ i \in DOMAIN player_hands'
                 /\ PlaceAfter(i, j) \in DOMAIN player_hands'[i].hands
                 /\ player_hands'[i].hands[PlaceAfter(i, j)] = h]_vars

\* The pointer is back on the first player's finished hand after the second
\* player has drawn a card: Previous Hand has moved it there.
C34_Witness ==
  /\ InPlaying /\ HasCurrent
  /\ pointer = <<0, 0>>
  /\ ~playable
  /\ Len(player_hands) = 2
  /\ Len(player_hands[2].hands[1].cards) = 3
  /\ ~player_hands[2].hands[1].is_standing
  /\ ~player_hands[2].hands[1].is_bust

\* The chips a player has on the table: the bets of the player's hands.
RECURSIVE Stake(_)
Stake(hands) ==
  IF hands = <<>> THEN 0 ELSE Head(hands).bet + Stake(Tail(hands))

\* What the hands of a player are paid against the dealer's hand.
RECURSIVE Payouts(_, _)
Payouts(hands, dealer) ==
  IF hands = <<>> THEN 0
  ELSE payout(Head(hands), dealer) + Payouts(Tail(hands), dealer)

\* C35: chips are conserved through a round.  The deal takes from every
\* player of the round exactly the bets of the player's hands; every step of
\* the playing phase leaves bankroll plus bets on the table as it was; the
\* settlement leaves the hands as they are and adds the sum of their payouts.
\* So bankroll plus bets is the bankroll before the deal throughout the
\* playing phase, and the settled bankroll is that bankroll less the final
\* bets plus the payouts; in a table's first round that bankroll is
\* STARTING_CHIPS.
C35_ChipConservation ==
  /\ [](rounds = 1 =>
         \A i \in DOMAIN player_hands :
           LET nm == player_hands[i].name
               hands == player_hands[i].hands
           IN  /\ InPlaying => bankrolls[nm] + Stake(hands) = STARTING_CHIPS
               /\ InResults =>
                    bankrolls[nm] = STARTING_CHIPS - Stake(hands)
                                      + Payouts(hands, dealer_hand[1]))
  /\ [][/\ DealStep =>
            \A i \in DOMAIN player_hands' :
              bankrolls'[player_hands'[i].name] + Stake(player_hands'[i].hands)
                = bankrolls[player_hands'[i].name]
        /\ (InPlaying /\ InPlaying') =>
            /\ Len(player_hands') = Len(player_hands)
            /\ \A i \in DOMAIN player_hands :
                 /\ player_hands'[i].name = player_hands[i].name
                 /\ bankrolls'[player_hands[i].name] + Stake(player_hands'[i].hands)
                      = bankrolls[player_hands[i].name] + Stake(player_hands[i].hands)
        /\ Settles =>
            /\ player_hands' = player_hands
            /\ \A i \in DOMAIN player_hands :
                 bankrolls'[player_hands[i].name]
                   = bankrolls[player_hands[i].name]
                       + Payouts(player_hands[i].hands, dealer_hand'[1])]_vars

\* A settled round in which a player split and doubled, so that three bets or
\* more were on the table, and was paid for some hand.
C35_Witness ==
  /\ InResults
  /\ \E i \in DOMAIN player_hands :
       /\ Len(player_hands[i].hands) >= 2
       /\ \E j \in DOMAIN player_hands[i].hands : player_hands[i].hands[j].doubled
       /\ Payouts(player_hands[i].hands, dealer_hand[1]) > 0

C37_SplitBlackjack ==
  (InPlaying \/ InResults) =>
    \A i \in DOMAIN player_hands :
      \A j \in DOMAIN player_hands[i].hands :
        LET h == player_hands[i].hands[j]
        IN  (/\ Len(player_hands[i].hands) >= 2
             /\ Len(h.cards) = 2
             /\ get_value(h.cards) = 21) =>
              /\ h.is_blackjack /\ h.is_standing /\ ~h.is_bust
              /\ (InResults /\ ~dealer_hand[1].is_blackjack) =>
                   /\ payout(h, dealer_hand[1]) = BlackjackPayout(h.bet)
                   /\ (rounds = 1) =>
                        bankrolls[player_hands[i].name]
                          = STARTING_CHIPS - Stake(player_hands[i].hands)
                              + BlackjackPayout(h.bet)
                              + Payouts(player_hands[i].hands, dealer_hand[1])
                              - payout(h, dealer_hand[1])

\* A settled round in which a player split a pair of Aces and drew a
\* ten-value card on each: the bets of 75 are paid 187 each by a dealer
\* without blackjack.
C37_Witness ==
  /\ InResults
  /\ ~dealer_hand[1].is_blackjack
  /\ \E i \in DOMAIN player_hands :
       /\ Len(player_hands[i].hands) = 2
       /\ \A j \in 1..2 :
            /\ player_hands[i].hands[j].cards[1][1] = "A"
            /\ Len(player_hands[i].hands[j].cards) = 2
            /\ player_hands[i].hands[j].is_blackjack
            /\ player_hands[i].hands[j].bet = 75
       /\ bankrolls[player_hands[i].name] = STARTING_CHIPS - 150 + 2 * 187

\* Mutant of round_row: the record of a blackjack carries twice the bet.
round_row_BlackjackPaysDouble(name, idx, h, dealer, banks) ==
  LET dealer_value == get_value(dealer.cards)
      pv == get_value(h.cards)
      rp == IF h.is_bust THEN <<"bust", 0>>
            ELSE IF h.is_blackjack /\ ~dealer.is_blackjack
            THEN <<"blackjack", h.bet * 2>>
            ELSE IF dealer.is_bust THEN <<"dealer_bust_win", h.bet * 2>>
            ELSE IF pv > dealer_value THEN <<"win", h.bet * 2>>
            ELSE IF pv = dealer_value THEN <<"push", h.bet>>
            ELSE <<"lose", 0>>
  IN  [player_name |-> name, hand_index |-> idx, bet |-> h.bet,
       result |-> rp[1], payout |-> rp[2], final_bankroll |-> banks[name],
       player_cards |-> h.cards, dealer_cards |-> dealer.cards,
       player_value |-> pv, dealer_value |-> dealer_value]

\* The record save_round_to_supabase builds for the hand h, the idx-th
\* (from 0) of the player name (the timestamp left out).
round_row(name, idx, h, dealer, banks) ==
  LET dealer_value == get_value(dealer.cards)
      pv == get_value(h.cards)
      rp == IF h.is_bust THEN <<"bust", 0>>
            ELSE IF h.is_blackjack /\ ~dealer.is_blackjack
            THEN <<"blackjack", BlackjackPayout(h.bet)>>
            ELSE IF dealer.is_bust THEN <<"dealer_bust_win", h.bet * 2>>
            ELSE IF pv > dealer_value THEN <<"win", h.bet * 2>>
            ELSE IF pv = dealer_value THEN <<"push", h.bet>>
            ELSE <<"lose", 0>>
  IN  [player_name |-> name, hand_index |-> idx, bet |-> h.bet,
       result |-> rp[1], payout |-> rp[2], final_bankroll |-> banks[name],
       player_cards |-> h.cards, dealer_cards |-> dealer.cards,
       player_value |-> pv, dealer_value |-> dealer_value]

\* The rows of a round: for every player, in order, the list of the records
\* of the player's hands, in order.
rows(dealer, phands, banks) ==
  [i \in 1..Len(phands) |->
     [j \in 1..Len(phands[i].hands) |->
        round_row(phands[i].name, j - 1, phands[i].hands[j], dealer, banks)]]

\* The payouts the records rs carry, added up.
RECURSIVE RowPayouts(_)
RowPayouts(rs) ==
  IF rs = <<>> THEN 0 ELSE Head(rs).payout + RowPayouts(Tail(rs))

\* The rule a record's result code names holds of the hand and the dealer.
ResultRule(row, h, dealer) ==
  \A pv \in {get_value(h.cards)} :
  \A dv \in {get_value(dealer.cards)} :
  \A natural \in {h.is_blackjack /\ ~dealer.is_blackjack} :
    /\ row.result = "bust" <=> pv > 21
    /\ row.result = "blackjack" <=> (pv <= 21 /\ natural)
    /\ row.result = "dealer_bust_win" <=> (pv <= 21 /\ ~natural /\ dv > 21)
    /\ row.result = "win" <=> (pv <= 21 /\ ~natural /\ dv <= 21 /\ pv > dv)
    /\ row.result = "push" <=> (pv <= 21 /\ ~natural /\ dv <= 21 /\ pv = dv)
    /\ row.result = "lose" <=> (pv <= 21 /\ ~natural /\ dv <= 21 /\ pv < dv)

\* C38: the records save_round_to_supabase builds for a settled round agree
\* with the settlement.  On the step that settles a round, the record of each
\* hand names the hand (player, index from 0, bet) and carries the payout of
\* apply_payouts for it and the result code of the rule that gave it; the
\* payouts of a player's records add up to what the step credited to the
\* player's bankroll, and final_bankroll is the bankroll the step left.
\* While the results are shown, dealer, hands and bankrolls stay as they are,
\* so the records built by a later save are these records.
C38_RecordMatchesPayout ==
  [][/\ Settles =>
          \A rs \in {rows(dealer_hand'[1], player_hands', bankrolls')} :
              /\ payouts_applied' /\ InResults'
              /\ \A i \in DOMAIN player_hands' :
                   LET nm == player_hands'[i].name
                       hands == player_hands'[i].hands
                   IN  /\ Len(rs[i]) = Len(hands)
                       /\ \A j \in DOMAIN hands :
                            \A row \in {rs[i][j]} :
                              /\ row.player_name = nm
                              /\ row.hand_index = j - 1
                              /\ row.bet = hands[j].bet
                              /\ row.payout = payout(hands[j], dealer_hand'[1])
                              /\ ResultRule(row, hands[j], dealer_hand'[1])
                              /\ row.final_bankroll = bankrolls'[nm]
                       /\ bankrolls'[nm] = bankrolls[nm] + RowPayouts(rs[i])
     /\ (round_over /\ round_over') =>
          UNCHANGED <<dealer_hand, player_hands, bankrolls>>]_vars

\* A round of two players saved with success whose records differ in their
\* result codes, one of them with a payout.
C38_Witness ==
  /\ InResults
  /\ saved # <<>> /\ saved[1]
  /\ Len(player_hands) = 2
  /\ LET rs == rows(dealer_hand[1], player_hands, bankrolls)
     IN  /\ rs[1][1].result # rs[2][1].result
         /\ rs[1][1].payout > 0

====
